---- MODULE Spec2Model ----
(***************************************************************************)
(* The multi-community controversy scoring engine of X-Track               *)
(* (src/polarity_analysis/polarity_scores.py) and the campaign loop that   *)
(* drives it (src/polarity_analysis/campaign_analysis.py).                 *)
(*                                                                         *)
(* Conventions.                                                            *)
(*  - User ids are the integers 1..MaxUsers; their order stands for the    *)
(*    order Python gives the id strings.                                   *)
(*  - Python lists are sequences, so community and matrix indices are      *)
(*    1..n here where the code has 0..n-1.                                 *)
(*  - Python floats are modelled as exact rationals <<num, den>>, den > 0, *)
(*    in lowest terms; rounding of IEEE doubles is not modelled.           *)
(*  - networkx, pandas and the database are libraries outside src/: a      *)
(*    call into them is modelled by its documented result, and a choice    *)
(*    the library leaves open (the partition found, the row order of a     *)
(*    query) is a nondeterministic choice.                                 *)
(***************************************************************************)
EXTENDS Integers, Sequences, FiniteSets, TLC

VARIABLES
    entry,          \* the function the run was entered through
    pc,             \* control location of the run
    exc,            \* the exception that ended the run, or "none"
    arg,            \* arguments of the run: flags of gen_graph, k, iterations
    replies,        \* the reply-sentiment rows of the database
    date,           \* index of the campaign date analyse_polarity is at
    campaign_data,  \* analyse_polarity: per date started, its topic records
    json_file,      \* <<campaign_data>> once dumped, <<>> before
    called,         \* the engine functions invoked for the current unit
    G,              \* the graph of the current unit (gen_graph's own G when
                    \* gen_graph raised)
    parts,          \* gen_partitions' result: <<count, communities>>
    influencers,    \* get_influencer_matrix' result
    x,              \* polarity_score_multi: iteration counter
    k,              \* polarity_score_multi: index of the source community
    node,           \* _random_walk_multi: the node the walk stands on
    side,           \* _random_walk_multi: community that ended the walk
    sentiment_parts,\* _random_walk_multi: votes per community
    j,              \* _random_walk_multi: the step counter
    rwc_matrix,     \* the crossing matrix
    rwc_matrix_sentiment, \* the sentiment matrix
    polarity_score, \* <<pscore>> once _calc_polarity returned, <<>> before
    draws,          \* the draws polarity_score_multi has made from the random
                    \* module so far, in a run whose generator was seeded:
                    \* the index each draw picked in its list
    campaign_analysis,          \* the rows of table campaign_analysis
    network_analysis_results,   \* the rows of table network_analysis_results
    request,        \* analyze_campaigns: campaigns and hashtags of the request
    campaign_analysis_stored_results, \* analyze_campaigns: the pair that
                    \* check_existing_results returned, <<>> before
    analysis_results, \* what the last NetworkAnalyzer.analyze returned
    reply_sentiment,\* _get_reply_sentiment called on its own: <<pair>> once
                    \* it returned, <<>> before
    workers,        \* concurrent /analyze requests: per request thread its
                    \* position, its query and what check_existing_results
                    \* returned to it
    appended        \* the rows to_sql appended to campaign_analysis, in the
                    \* order of the INSERTs

vars == <<entry, pc, exc, arg, replies, date, campaign_data, json_file, called,
          G, parts, influencers, x, k, node, side, sentiment_parts, j,
          rwc_matrix, rwc_matrix_sentiment, polarity_score, draws,
          campaign_analysis, network_analysis_results, request,
          campaign_analysis_stored_results, analysis_results,
          reply_sentiment, workers, appended>>

(***************************************************************************)
(* Bounds of the model.                                                    *)
(***************************************************************************)
\* polarity_score_multi called directly: number of distinct user ids the
\* edge query can mention, and number of rows it returns at most
MaxUsers == 3
MaxEdges == 2
\* polarity_score_multi called directly: largest value of iterations
MaxIter == 2
\* analyse_polarity: number of distinct user ids an edge query can mention,
\* and number of rows it returns at most
CampaignUsers == 2
CampaignEdges == 1
\* analyse_polarity: how far the model follows the default of iterations
CampaignIter == 1
\* get_influencer_matrix called directly: number of distinct user ids the
\* edge query can mention, and number of rows it returns at most
InflUsers == 4
InflEdges == 2
\* _random_walk_multi called directly: number of distinct user ids the edge
\* query can mention, and number of rows it returns at most
WalkUsers == 3
WalkEdges == 3
\* polarity_score_multi called after random.seed: number of distinct user
\* ids the edge query can mention, number of rows it returns at most, and
\* largest value of iterations
SeedUsers == 2
SeedEdges == 2
SeedIter == 1
\* moves of one walk the model follows before it stops exploring the walk
MaxSteps == 3
\* largest numerator of a matrix entry handed to _calc_polarity directly
MaxNum == 1
\* largest denominator of a matrix entry handed to _calc_polarity directly
MaxDen == 2
\* largest number of communities of a matrix handed to _calc_polarity directly
MaxN == 3

\* analyse_polarity: the dates _get_dates returns
campaign_dates == <<"2023-05-01", "2023-05-02">>
NumDates == Len(campaign_dates)

None == "None"
\* side = None (line 216); community indices start at 1 here
NoSide == 0
\* no walk has picked a node yet
NoNode == 0
\* the defaults of the parameters k and iterations
DefaultK == 10
DefaultIterations == 100

(***************************************************************************)
(* Exact rationals standing for Python floats.                             *)
(***************************************************************************)
Abs(a) == IF a < 0 THEN -a ELSE a

RECURSIVE GCD(_, _)
GCD(a, b) == IF b = 0 THEN a ELSE GCD(b, a % b)

Rat(n, d) ==
    LET g == GCD(Abs(n), Abs(d))
        s == IF d < 0 THEN -1 ELSE 1
    IN  <<(s * n) \div g, (s * d) \div g>>

RInt(a) == <<a, 1>>
RAdd(p, q) == Rat(p[1] * q[2] + q[1] * p[2], p[2] * q[2])
RSub(p, q) == Rat(p[1] * q[2] - q[1] * p[2], p[2] * q[2])
RMul(p, q) == Rat(p[1] * q[1], p[2] * q[2])
RDiv(p, q) == Rat(p[1] * q[2], p[2] * q[1])
RLess(p, q) == p[1] * q[2] < q[1] * p[2]
RMax(p, q) == IF RLess(p, q) THEN q ELSE p
RPow2(p) == RMul(p, p)

Min(a, b) == IF a < b THEN a ELSE b

\* math.ceil(a / b) for integers a >= 0, b > 0
Ceil(a, b) == (a + b - 1) \div b

\* n x n matrix of 0.0
ZeroMatrix(n) == [r \in 1..n |-> [c \in 1..n |-> RInt(0)]]

(***************************************************************************)
(* polarity_scores._calc_polarity                                          *)
(***************************************************************************)
\* the double loop of lines 285-290 leaving the last cell out
RECURSIVE CalcLoop_SkipLast(_, _, _, _, _)
CalcLoop_SkipLast(M, S, n, idx, acc) ==
    IF idx > n * n - 1 THEN acc
    ELSE LET i == ((idx - 1) \div n) + 1
             c == ((idx - 1) % n) + 1
             v  == RAdd(acc[1], RPow2(RSub(RDiv(RInt(1), RInt(n)), M[i][c])))
             vs == RAdd(acc[2], RPow2(S[i][c]))
         IN  CalcLoop_SkipLast(M, S, n, idx + 1, <<v, vs>>)

\* the double loop of lines 285-290, cell after cell in row-major order;
\* acc = <<v, vs>>
RECURSIVE CalcLoop(_, _, _, _, _)
CalcLoop(M, S, n, idx, acc) ==
    IF idx > n * n THEN acc
    ELSE LET i == ((idx - 1) \div n) + 1
             c == ((idx - 1) % n) + 1
             v  == RAdd(acc[1], RPow2(RSub(RDiv(RInt(1), RInt(n)), M[i][c])))
             vs == RAdd(acc[2], RPow2(S[i][c]))
         IN  CalcLoop(M, S, n, idx + 1, <<v, vs>>)

\* line 293 dividing v by n instead of n - 1
PscoreOf_DivN(v, vs, n) ==
    RDiv(RAdd(RMul(v, RDiv(RInt(1), RInt(n))),
              RMul(vs, RDiv(RInt(1), RInt(n * n)))),
         RInt(2))

\* line 293 with v and vs in hand
PscoreOf(v, vs, n) ==
    RDiv(RAdd(RMul(v, RDiv(RInt(1), RInt(n - 1))),
              RMul(vs, RDiv(RInt(1), RInt(n * n)))),
         RInt(2))

\* the value returned, or the exception raised: 1/(n-1) with n = 1 and
\* 1/pow(n,2) with n = 0 divide by zero
_calc_polarity(M, S) ==
    LET n == Len(M)
        acc == CalcLoop(M, S, n, 1, <<RInt(0), RInt(0)>>)
    IN  IF n <= 1 THEN [exc |-> "ZeroDivisionError", val |-> RInt(0)]
        ELSE [exc |-> "none", val |-> PscoreOf(acc[1], acc[2], n)]

(***************************************************************************)
(* Graphs.  A graph is [nodes, edges, directed]; edges is a set of pairs   *)
(* <<a, b>>, closed under reversal when the graph is undirected (nx.Graph) *)
(* and as given when it is directed (nx.DiGraph).  The weight column w of  *)
(* an edge row becomes an edge attribute that nothing downstream reads and *)
(* is left out.                                                            *)
(***************************************************************************)
EmptyGraph(directed) == [nodes |-> {}, edges |-> {}, directed |-> directed]

\* the results an edge query can have: sets of at most m rows <<a, b>> over
\* the user ids 1..u
EdgeLists(u, m) ==
    {rows \in SUBSET ((1..u) \X (1..u)) : Cardinality(rows) <= m}

\* polarity_scores._gen_graph_from_query: nx.from_pandas_edgelist
_gen_graph_from_query(rows, directed) ==
    [nodes    |-> {r[1] : r \in rows} \cup {r[2] : r \in rows},
     edges    |-> IF directed THEN rows
                  ELSE rows \cup {<<r[2], r[1]>> : r \in rows},
     directed |-> directed]

\* a variant of Neighbors for a graph that keeps an edge a - b only at its
\* lower end: v's successors with an id not below v
Neighbors_OneWay(Gr, v) == {e[2] : e \in {f \in Gr.edges : f[1] = v /\ f[2] >= v}}

\* G.neighbors(v): the successors of v
Neighbors(Gr, v) == {e[2] : e \in {f \in Gr.edges : f[1] = v}}

\* G.degree(v): a self-loop counts twice; in + out for a DiGraph
Degree(Gr, v) ==
    IF Gr.directed
    THEN Cardinality({e \in Gr.edges : e[1] = v}) + Cardinality({e \in Gr.edges : e[2] = v})
    ELSE Cardinality({e \in Gr.edges : e[1] = v}) + (IF <<v, v>> \in Gr.edges THEN 1 ELSE 0)

\* nx.isolates(G)
Isolates(Gr) == {v \in Gr.nodes : Degree(Gr, v) = 0}

\* G.subgraph(S)
Subgraph(Gr, S) ==
    [nodes    |-> Gr.nodes \cap S,
     edges    |-> {e \in Gr.edges : e[1] \in S /\ e[2] \in S},
     directed |-> Gr.directed]

\* G.remove_nodes_from(S)
RemoveNodes(Gr, S) == Subgraph(Gr, Gr.nodes \ S)

\* nx.is_empty(G): no edges
IsEmpty(Gr) == Gr.edges = {}

\* nodes reachable from the set seen along edges
RECURSIVE Reach(_, _)
Reach(Gr, seen) ==
    LET more == seen \cup UNION {Neighbors(Gr, v) : v \in seen}
    IN  IF more = seen THEN seen ELSE Reach(Gr, more)

\* nx.connected_components(G) of an undirected graph
ConnectedComponents(Gr) == {Reach(Gr, {v}) : v \in Gr.nodes}

\* the components sorted(..., key=len, reverse=True) can put first: the sort
\* is stable, so among the largest ones the row order of the query decides
FirstOfSorted(comps) ==
    {c \in comps : \A d \in comps : Cardinality(d) <= Cardinality(c)}

\* an outcome of gen_graph: the graph returned, or the exception raised and
\* the graph gen_graph held in its local G when it raised
Returned(v) == [exc |-> "none", val |-> v]
Raised(e, v) == [exc |-> e, val |-> v]

(***************************************************************************)
(* polarity_scores.gen_graph, categories "retweet" and "reply": the set of *)
(* its outcomes for the rows the edge query returned                       *)
(***************************************************************************)
gen_graph(rows, connected, remove_isolated, directed) ==
    LET G0 == _gen_graph_from_query(rows, directed)
        G1 == IF remove_isolated THEN RemoveNodes(G0, Isolates(G0)) ELSE G0
    IN  IF ~connected THEN {Returned(G1)}
        ELSE IF G1.directed THEN {Raised("NetworkXNotImplemented", G1)}
        ELSE IF ConnectedComponents(G1) = {} THEN {Raised("IndexError", G1)}
        ELSE {Returned(Subgraph(G1, c)) : c \in FirstOfSorted(ConnectedComponents(G1))}

(***************************************************************************)
(* polarity_scores.gen_partitions, mode "modularity".  The communities are *)
(* what nx_comm.greedy_modularity_communities finds: disjoint non-empty    *)
(* sets covering the nodes, largest first; the algorithm starts from       *)
(* singletons and only ever merges two communities joined by an edge, so   *)
(* every community is connected when edge directions are ignored.  Which   *)
(* such partition it finds is left open.  The modularity float is carried  *)
(* as an opaque value.                                                     *)
(***************************************************************************)
Modularity == "nx_comm.modularity"

\* v's neighbours in either direction
Adjacent(Gr, v) ==
    {e[2] : e \in {f \in Gr.edges : f[1] = v}} \cup {e[1] : e \in {f \in Gr.edges : f[2] = v}}

\* the nodes of block b joined to the set seen by edges inside b
RECURSIVE Joined(_, _, _)
Joined(Gr, b, seen) ==
    LET more == seen \cup (b \cap UNION {Adjacent(Gr, v) : v \in seen})
    IN  IF more = seen THEN seen ELSE Joined(Gr, b, more)

IsConnectedBlock(Gr, b) == b # {} /\ Joined(Gr, b, {CHOOSE v \in b : TRUE}) = b

\* the partitions of S into non-empty blocks, built by placing the nodes one
\* at a time into a new block or into a block already there
RECURSIVE SetPartitions(_)
SetPartitions(S) ==
    IF S = {} THEN {{}}
    ELSE LET v == CHOOSE v \in S : TRUE
             smaller == SetPartitions(S \ {v})
         IN  {P \cup {{v}} : P \in smaller}
             \cup {(P \ {b}) \cup {b \cup {v}} : <<P, b>> \in
                       {<<P, b>> \in smaller \X SUBSET (S \ {v}) : b \in P}}

\* the orders sorted(..., key=len, reverse=True) can give the blocks
RECURSIVE LargestFirst(_)
LargestFirst(P) ==
    IF P = {} THEN {<<>>}
    ELSE UNION {{<<b>> \o rest : rest \in LargestFirst(P \ {b})} :
                  b \in {b \in P : \A d \in P : Cardinality(d) <= Cardinality(b)}}

Communities(Gr) ==
    UNION {LargestFirst(P) :
             P \in {Q \in SetPartitions(Gr.nodes) : \A b \in Q : IsConnectedBlock(Gr, b)}}

gen_partitions(Gr) ==
    {<<<<Len(c), c>>, Modularity>> : c \in Communities(Gr)}

(***************************************************************************)
(* polarity_scores.get_influencer_matrix                                   *)
(***************************************************************************)
\* nx.degree_centrality(H): 1 for every node when H has at most one node,
\* degree / (|H| - 1) otherwise
degree_centrality(H) ==
    [v \in H.nodes |->
        IF Cardinality(H.nodes) <= 1 THEN RInt(1)
        ELSE Rat(Degree(H, v), Cardinality(H.nodes) - 1)]

\* Python's order of the tuples (node, score)
ItemLess(a, b) == a[1] < b[1] \/ (a[1] = b[1] /\ RLess(a[2], b[2]))

\* sorted(score.items())
RECURSIVE SortedItems(_)
SortedItems(items) ==
    IF items = {} THEN <<>>
    ELSE LET m == CHOOSE a \in items : \A b \in items \ {a} : ItemLess(a, b)
         IN  <<m>> \o SortedItems(items \ {m})

\* line 171: the keys of OrderedDict(sorted(score.items()))
NodesMetric(score) ==
    LET items == SortedItems({<<v, score[v]>> : v \in DOMAIN score})
    IN  [i \in 1..Len(items) |-> items[i][1]]

\* seq[:k] for k >= 0
Take(seq, n) == SubSeq(seq, 1, Min(n, Len(seq)))

\* line 169 rounding down
NextK_Floor(kk, H) == (kk * Cardinality(H.nodes)) \div 100

\* line 169: k = math.ceil((k * len(H.nodes())) / 100)
NextK(kk, H) == Ceil(kk * Cardinality(H.nodes), 100)

\* the values of metric the model follows: the default, which takes the else
\* branch of line 166, and one of the three named ones
Metrics == {"degree_centrality", "eigenvector_centrality"}

\* nx.eigenvector_centrality(H) when the power iteration converges: a score
\* per node.  The values are the library's; two levels stand for them.
EigenvectorScores(H) == [H.nodes -> {Rat(1, 2), RInt(1)}]

\* lines 160-167: the outcomes of the centrality of H.  nx.degree_centrality
\* always returns; nx.eigenvector_centrality returns the scores or raises
\* PowerIterationFailedConvergence when the power iteration does not converge
\* within its max_iter; on which graphs it does is the library's matter.
Centrality(H, metric) ==
    IF metric = "eigenvector_centrality"
    THEN {Raised("PowerIterationFailedConvergence", <<>>)}
         \cup {Returned(sc) : sc \in EigenvectorScores(H)}
    ELSE {Returned(degree_centrality(H))}

\* the loop of lines 155-173; kk is the variable k as the loop rebinds it.
\* The outcomes: the list returned, or the exception a centrality raised,
\* which nothing in the loop catches, with the lists built until then
RECURSIVE InfluencerLoop(_, _, _, _, _, _)
InfluencerLoop(Gr, comms, idx, kk, influencers_list, metric) ==
    IF idx > Len(comms) THEN {Returned(influencers_list)}
    ELSE LET H == Subgraph(Gr, comms[idx])
             k2 == NextK(kk, H)
         IN  UNION {IF score.exc # "none"
                    THEN {Raised(score.exc, influencers_list)}
                    ELSE InfluencerLoop(Gr, comms, idx + 1, k2,
                             Append(influencers_list, Take(NodesMetric(score.val), k2)),
                             metric) :
                    score \in Centrality(H, metric)}

get_influencer_matrix(Gr, P, metric, kk) == InfluencerLoop(Gr, P[2], 1, kk, <<>>, metric)

(***************************************************************************)
(* polarity_scores._get_reply_sentiment.  A row of replies is one reply    *)
(* tweet with its sentiment: [author, reply_to, pos, neg].  The query      *)
(* averages pos and neg over the author's replies to members of part; an   *)
(* average over no rows is NULL, read by pandas as None.                   *)
(***************************************************************************)
RECURSIVE SumOf(_, _)
SumOf(rows, field) ==
    IF rows = {} THEN 0
    ELSE LET r == CHOOSE r \in rows : TRUE
         IN  r[field] + SumOf(rows \ {r}, field)

Avg(rows, field) ==
    IF rows = {} THEN None ELSE Rat(SumOf(rows, field), Cardinality(rows))

\* Python's truth value of a query average: None and 0.0 are false
Truthy(a) == a # None /\ a[1] # 0

_get_reply_sentiment(db, user_id, part) ==
    LET rows == {r \in db : r.author = user_id /\ r.reply_to \in part}
        pos == Avg(rows, "pos")
        neg == Avg(rows, "neg")
    IN  IF Truthy(pos) /\ Truthy(neg) THEN <<pos, neg>> ELSE <<RInt(0), RInt(0)>>

\* lines 228-231 with the two signs exchanged
Vote_Swapped(sentiment) ==
    IF RLess(sentiment[1], sentiment[2]) THEN -1
    ELSE IF RLess(sentiment[2], sentiment[1]) THEN 1
    ELSE 0

\* lines 226-233: the vote of one lookup
Vote(sentiment) ==
    IF RLess(sentiment[1], sentiment[2]) THEN 1
    ELSE IF RLess(sentiment[2], sentiment[1]) THEN -1
    ELSE 0

\* lines 225-234: sentiment_parts after the lookups for the node moved to
VotesAdded(db, comms, sp, nd) ==
    [i \in 1..Len(comms) |-> sp[i] + Vote(_get_reply_sentiment(db, nd, comms[i]))]

\* lines 236-241 looking at the crossing matrix: a side whose cell of row k
\* has been counted before is passed on to the next community
SideOf_SeesMatrix(infl, nd, old) ==
    LET hits == {i \in 1..Len(infl) : \E p \in 1..Len(infl[i]) : infl[i][p] = nd}
        found == IF hits = {} THEN old
                 ELSE CHOOSE i \in hits : \A i2 \in hits : i2 <= i
    IN  IF /\ hits # {}
           /\ k \in 1..Len(rwc_matrix)
           /\ rwc_matrix[k][found] # RInt(0)
        THEN (found % Len(infl)) + 1
        ELSE found

\* lines 236-241: the side the loop over influencers_matrix leaves behind: the
\* last row holding the node, or the value side had (None) when no row does
SideOf(infl, nd, old) ==
    LET hits == {i \in 1..Len(infl) : \E p \in 1..Len(infl[i]) : infl[i][p] = nd}
    IN  IF hits = {} THEN old
        ELSE CHOOSE i \in hits : \A i2 \in hits : i2 <= i

\* the position of v in the list random.sample or random.choice draws from.
\* The order of the list is fixed by the graph and the partition handed in;
\* the ascending order of the ids stands for it.
IndexIn(S, v) == Cardinality({u \in S : u <= v})

\* the element of the list at position r
AtIndex(S, r) ==
    IF r \in 1..Cardinality(S) THEN CHOOSE v \in S : IndexIn(S, v) = r ELSE NoNode

\* the draws after one more, r: a run entered through random.seed has a
\* stream of draws its seed fixes, and the model keeps it; of the other runs
\* it keeps none
Drawn(r) == IF entry = "random.seed" THEN Append(draws, r) ELSE draws

(***************************************************************************)
(* State of a run before any of it is used.                                *)
(***************************************************************************)
NoParts == <<0, <<>>>>

IdleUnit ==
    /\ called = {}
    /\ G = EmptyGraph(FALSE)
    /\ parts = NoParts
    /\ influencers = <<>>

IdleScore ==
    /\ x = 0
    /\ k = 0
    /\ node = NoNode
    /\ side = NoSide
    /\ sentiment_parts = <<>>
    /\ j = 0
    /\ rwc_matrix = <<>>
    /\ rwc_matrix_sentiment = <<>>
    /\ polarity_score = <<>>
    /\ draws = <<>>

\* the web application has served no request and its tables are empty; no
\* sentiment lookup has been made on its own
IdleWeb ==
    /\ campaign_analysis = {}
    /\ network_analysis_results = {}
    /\ request = <<>>
    /\ campaign_analysis_stored_results = <<>>
    /\ analysis_results = <<>>
    /\ reply_sentiment = <<>>
    /\ workers = <<>>
    /\ appended = <<>>

unitVars == <<called, G, parts, influencers>>
scoreVars == <<x, k, node, side, sentiment_parts, j, rwc_matrix,
               rwc_matrix_sentiment, polarity_score, draws>>
walkVars == <<node, side, sentiment_parts, j>>
campaignVars == <<date, campaign_data, json_file>>
raceVars == <<workers, appended>>
webVars == <<campaign_analysis, network_analysis_results, request,
             campaign_analysis_stored_results, analysis_results, raceVars>>
runVars == <<entry, arg, replies, webVars, reply_sentiment>>

\* the reply-sentiment tables a campaign is checked with: no reply at all,
\* and every user replying to every user with the sentiment <<pos, neg>> that
\* pair[<<a, b>>] gives
UserPairs == (1..CampaignUsers) \X (1..CampaignUsers)

ReplyTable(pair) ==
    {[author |-> p[1], reply_to |-> p[2], pos |-> pair[p][1], neg |-> pair[p][2]] :
        p \in UserPairs}

Hostile == [p \in UserPairs |-> <<1, 2>>]
Friendly == [p \in UserPairs |-> <<2, 1>>]
Mixed == [p \in UserPairs |-> IF p[2] <= p[1] THEN <<2, 1>> ELSE <<1, 2>>]

ReplyTables == {{}, ReplyTable(Hostile), ReplyTable(Friendly), ReplyTable(Mixed)}

(***************************************************************************)
(* Polarity.analyse_polarity, topic_method "top_hashtags_all": one topic   *)
(* (index 0) per date.                                                     *)
(***************************************************************************)
\* the arguments analyse_polarity leaves at their defaults; the iteration
\* count is the default as far as the model follows it
DefaultArgs ==
    [connected |-> TRUE, remove_isolated |-> TRUE, directed |-> FALSE,
     metric |-> "degree_centrality", k |-> DefaultK,
     iterations |-> Min(DefaultIterations, CampaignIter)]

\* lines 82-90
ZeroRecord ==
    [topic_words |-> "topic", pscore |-> RInt(0), num_communities |-> 0,
     modularity |-> "0.0", rwc_matrix_sentiment |-> <<>>, rwc_matrix |-> <<>>,
     influencers |-> <<>>]

\* lines 102-110
UnitRecord(ps, rwc, rwcs, infl) ==
    [topic_words |-> "topic", pscore |-> ps, num_communities |-> parts[1],
     modularity |-> Modularity, rwc_matrix_sentiment |-> rwcs,
     rwc_matrix |-> rwc, influencers |-> infl]

\* campaign_data[date][0] = rec, then the next date of the loop of line 69,
\* or the end of the loop
StoreAndContinue(rec) ==
    /\ campaign_data' = [campaign_data EXCEPT ![date] = <<rec>>]
    /\ IF date < NumDates
       THEN /\ date' = date + 1
            /\ pc' = "gen_graph"
       ELSE /\ date' = date
            /\ pc' = "finish"

InitCampaign ==
    /\ entry = "analyse_polarity"
    /\ pc = "gen_graph"
    /\ exc = "none"
    /\ IdleWeb
    /\ arg = DefaultArgs
    /\ replies \in ReplyTables
    /\ date = 1
    /\ campaign_data = <<>>
    /\ json_file = <<>>
    /\ IdleUnit
    /\ IdleScore

\* lines 69-91: the next date's graph; the edge query's result is the input
AnalyseGraph ==
    /\ entry = "analyse_polarity"
    /\ pc = "gen_graph"
    /\ \E rows \in EdgeLists(CampaignUsers, CampaignEdges) :
       \E out \in gen_graph(rows, arg.connected, arg.remove_isolated, arg.directed) :
          /\ called' = {"gen_graph"}
          /\ IF out.exc # "none"
             THEN /\ pc' = "raised"
                  /\ exc' = out.exc
                  /\ G' = out.val
                  /\ campaign_data' = Append(campaign_data, <<>>)
                  /\ date' = date
             ELSE IF IsEmpty(out.val)
             THEN /\ exc' = exc
                  /\ G' = out.val
                  /\ campaign_data' = Append(campaign_data, <<ZeroRecord>>)
                  /\ IF date < NumDates
                     THEN date' = date + 1 /\ pc' = "gen_graph"
                     ELSE date' = date /\ pc' = "finish"
             ELSE /\ exc' = exc
                  /\ G' = out.val
                  /\ campaign_data' = Append(campaign_data, <<>>)
                  /\ date' = date
                  /\ pc' = "gen_partitions"
    /\ parts' = NoParts
    /\ influencers' = <<>>
    /\ UNCHANGED <<runVars, json_file, scoreVars>>

\* line 96 with the comparison off by one
SimulatorInvoked_AtLeastOne(num_communities) == num_communities >= 1

\* line 96: the test that sends a unit to the simulator
SimulatorInvoked(num_communities) == num_communities > 1

\* lines 93-96 and 99-110: the partition; with one community the record is
\* stored at once
GenPartitions ==
    /\ pc = "gen_partitions"
    /\ \E res \in gen_partitions(G) :
          /\ parts' = res[1]
          /\ called' = called \cup {"gen_partitions"}
          /\ IF SimulatorInvoked(res[1][1])
             THEN /\ pc' = "get_influencer_matrix"
                  /\ UNCHANGED campaignVars
             ELSE IF entry = "analyse_polarity"
             THEN /\ campaign_data' = [campaign_data EXCEPT ![date] =
                        <<[topic_words |-> "topic", pscore |-> RInt(0),
                           num_communities |-> res[1][1], modularity |-> res[2],
                           rwc_matrix_sentiment |-> <<<<>>>>, rwc_matrix |-> <<<<>>>>,
                           influencers |-> <<<<>>>>]>>]
                  /\ json_file' = json_file
                  /\ IF date < NumDates
                     THEN date' = date + 1 /\ pc' = "gen_graph"
                     ELSE date' = date /\ pc' = "finish"
             ELSE /\ pc' = "returned"
                  /\ UNCHANGED campaignVars
    /\ UNCHANGED <<runVars, exc, G, influencers, scoreVars>>

\* line 97: get_influencer_matrix; an exception of it is caught nowhere
GetInfluencers ==
    /\ pc = "get_influencer_matrix"
    /\ called' = called \cup {"get_influencer_matrix"}
    /\ \E out \in get_influencer_matrix(G, parts, arg.metric, arg.k) :
          IF out.exc # "none"
          THEN /\ pc' = "raised"
               /\ exc' = out.exc
               /\ influencers' = influencers
          ELSE /\ pc' = IF entry = "get_influencer_matrix" THEN "returned"
                        ELSE "polarity_score_multi"
               /\ exc' = exc
               /\ influencers' = out.val
    /\ UNCHANGED <<runVars, campaignVars, G, parts, scoreVars>>

(***************************************************************************)
(* polarity_scores.polarity_score_multi and _random_walk_multi             *)
(***************************************************************************)
\* lines 249-260 and 215-218: the matrices, then the first walk's start node
\* (or no walk at all with iterations = 0)
EnterScore ==
    /\ pc = "polarity_score_multi"
    /\ called' = called \cup {"polarity_score_multi"}
    /\ rwc_matrix' = ZeroMatrix(parts[1])
    /\ rwc_matrix_sentiment' = ZeroMatrix(parts[1])
    /\ x' = 0
    /\ polarity_score' = <<>>
    /\ draws' = <<>>
    /\ IF arg.iterations > 0 /\ parts[1] > 0
       THEN /\ k' = 1
            /\ pc' = "sample"
       ELSE /\ k' = 0
            /\ pc' = "_calc_polarity"
    /\ UNCHANGED <<runVars, exc, campaignVars, G, parts, influencers, walkVars>>

\* line 260 sampling the start node from the whole graph instead of part
Sample_AnyCommunity ==
    /\ pc = "sample"
    /\ \E start \in G.nodes :
          /\ node' = start
          /\ draws' = Drawn(IndexIn(G.nodes, start))
    /\ side' = NoSide
    /\ sentiment_parts' = [i \in 1..Len(parts[2]) |-> 0]
    /\ j' = 1
    /\ pc' = "walk"
    /\ UNCHANGED <<runVars, exc, campaignVars, unitVars, x, k, rwc_matrix,
                   rwc_matrix_sentiment, polarity_score>>

\* line 260 and lines 215-218: random.sample(part, 1)[0], then the walk's
\* local variables
Sample ==
    /\ pc = "sample"
    /\ \E start \in parts[2][k] :
          /\ node' = start
          /\ draws' = Drawn(IndexIn(parts[2][k], start))
    /\ side' = NoSide
    /\ sentiment_parts' = [i \in 1..Len(parts[2]) |-> 0]
    /\ j' = 1
    /\ pc' = "walk"
    /\ UNCHANGED <<runVars, exc, campaignVars, unitVars, x, k, rwc_matrix,
                   rwc_matrix_sentiment, polarity_score>>

\* line 221 taking the move from a generator the seed does not fix, the
\* seeded stream moving on by one draw all the same
WalkStep_Unseeded ==
    /\ pc = "walk"
    /\ j <= MaxSteps
    /\ IF Neighbors(G, node) = {}
       THEN /\ pc' = "raised"
            /\ exc' = "IndexError"
            /\ UNCHANGED <<walkVars, draws>>
       ELSE /\ exc' = exc
            /\ \E nxt \in Neighbors(G, node) :
                  /\ node' = nxt
                  /\ draws' = Drawn(1)
                  /\ sentiment_parts' = VotesAdded(replies, parts[2], sentiment_parts, nxt)
                  /\ j' = j + 1
                  /\ side' = SideOf(influencers, nxt, side)
                  /\ pc' = IF SideOf(influencers, nxt, side) = NoSide THEN "walk"
                           ELSE IF entry = "_random_walk_multi" THEN "returned"
                           ELSE "accumulate"
    /\ UNCHANGED <<runVars, campaignVars, unitVars, x, k, rwc_matrix,
                   rwc_matrix_sentiment, polarity_score>>

\* lines 237-241 run at the head of the loop, before the move of line 221
WalkStep_TestBeforeMove ==
    /\ pc = "walk"
    /\ j <= MaxSteps
    /\ IF SideOf(influencers, node, NoSide) # NoSide
       THEN /\ side' = SideOf(influencers, node, NoSide)
            /\ pc' = IF entry = "_random_walk_multi" THEN "returned"
                     ELSE "accumulate"
            /\ UNCHANGED <<exc, node, sentiment_parts, j, draws>>
       ELSE IF Neighbors(G, node) = {}
       THEN /\ pc' = "raised"
            /\ exc' = "IndexError"
            /\ UNCHANGED <<walkVars, draws>>
       ELSE /\ exc' = exc
            /\ \E nxt \in Neighbors(G, node) :
                  /\ node' = nxt
                  /\ draws' = Drawn(IndexIn(Neighbors(G, node), nxt))
                  /\ sentiment_parts' = VotesAdded(replies, parts[2], sentiment_parts, nxt)
                  /\ j' = j + 1
                  /\ side' = side
                  /\ pc' = "walk"
    /\ UNCHANGED <<runVars, campaignVars, unitVars, x, k, rwc_matrix,
                   rwc_matrix_sentiment, polarity_score>>

\* lines 219-241: one pass of the while loop.  random.choice of an empty
\* list raises IndexError.  The model follows a walk for MaxSteps moves.
WalkStep ==
    /\ pc = "walk"
    /\ j <= MaxSteps
    /\ IF Neighbors(G, node) = {}
       THEN /\ pc' = "raised"
            /\ exc' = "IndexError"
            /\ UNCHANGED <<walkVars, draws>>
       ELSE /\ exc' = exc
            /\ \E nxt \in Neighbors(G, node) :
                  /\ node' = nxt
                  /\ draws' = Drawn(IndexIn(Neighbors(G, node), nxt))
                  /\ sentiment_parts' = VotesAdded(replies, parts[2], sentiment_parts, nxt)
                  /\ j' = j + 1
                  /\ side' = SideOf(influencers, nxt, side)
                  /\ pc' = IF SideOf(influencers, nxt, side) = NoSide THEN "walk"
                           ELSE IF entry = "_random_walk_multi" THEN "returned"
                           ELSE "accumulate"
    /\ UNCHANGED <<runVars, campaignVars, unitVars, x, k, rwc_matrix,
                   rwc_matrix_sentiment, polarity_score>>

\* line 269 adding 1/(iterations + 1)
Increment_OffByOne(iterations) == Rat(1, iterations + 1)

\* line 269: what one walk adds to its cell of the crossing matrix
Increment(iterations) == Rat(1, iterations)

\* line 265 adding the size of the net vote, whatever its sign
SentimentIncrement_Magnitude(sentiment, iterations) ==
    Rat(Abs(sentiment), iterations)

\* line 265 without the max(..., 0)
SentimentIncrement_NoFloor(sentiment, iterations) == Rat(sentiment, iterations)

\* line 265: what one walk adds to a cell of the sentiment matrix
SentimentIncrement(sentiment, iterations) == RMax(Rat(sentiment, iterations), RInt(0))

\* lines 263-269, then the loop heads of lines 254 and 256
Accumulate ==
    /\ pc = "accumulate"
    /\ rwc_matrix_sentiment' =
           [rwc_matrix_sentiment EXCEPT ![k] =
               [c \in 1..Len(sentiment_parts) |->
                   RAdd(rwc_matrix_sentiment[k][c],
                        SentimentIncrement(sentiment_parts[c], arg.iterations))]]
    /\ rwc_matrix' = [rwc_matrix EXCEPT ![k][side] =
                         RAdd(rwc_matrix[k][side], Increment(arg.iterations))]
    /\ IF k < parts[1]
       THEN /\ k' = k + 1
            /\ x' = x
            /\ pc' = "sample"
       ELSE IF x + 1 < arg.iterations
       THEN /\ k' = 1
            /\ x' = x + 1
            /\ pc' = "sample"
       ELSE /\ k' = k
            /\ x' = x + 1
            /\ pc' = "_calc_polarity"
    /\ UNCHANGED <<runVars, exc, campaignVars, unitVars, walkVars, polarity_score,
                   draws>>

\* lines 270-276: the score of the two matrices
ReturnScore ==
    /\ pc = "_calc_polarity"
    /\ called' = called \cup {"_calc_polarity"}
    /\ LET out == _calc_polarity(rwc_matrix, rwc_matrix_sentiment)
       IN  IF out.exc # "none"
           THEN /\ pc' = "raised"
                /\ exc' = out.exc
                /\ polarity_score' = polarity_score
           ELSE /\ pc' = IF entry = "analyse_polarity" THEN "store" ELSE "returned"
                /\ exc' = exc
                /\ polarity_score' = <<out.val>>
    /\ UNCHANGED <<runVars, campaignVars, G, parts, influencers, x, k, walkVars,
                   rwc_matrix, rwc_matrix_sentiment, draws>>

\* lines 98 and 102-110: the unit's record
StoreRecord ==
    /\ pc = "store"
    /\ StoreAndContinue(UnitRecord(polarity_score[1], rwc_matrix,
                                   rwc_matrix_sentiment, influencers))
    /\ UNCHANGED <<runVars, exc, json_file, unitVars, scoreVars>>

\* lines 112-115: the charts and the JSON dump
Finish ==
    /\ pc = "finish"
    /\ json_file' = <<campaign_data>>
    /\ pc' = "done"
    /\ UNCHANGED <<runVars, exc, date, campaign_data, unitVars, scoreVars>>

Next ==
    \/ AnalyseGraph
    \/ GenPartitions
    \/ GetInfluencers
    \/ EnterScore
    \/ Sample
    \/ WalkStep
    \/ Accumulate
    \/ ReturnScore
    \/ StoreRecord
    \/ Finish

Spec == InitCampaign /\ [][Next]_vars

(***************************************************************************)
(* polarity_score_multi reached through the engine's own functions, with   *)
(* the arguments a caller can give them: gen_graph, gen_partitions,        *)
(* get_influencer_matrix, polarity_score_multi.                            *)
(***************************************************************************)
KPcts == {DefaultK, 50, 100}

InitSim ==
    /\ entry = "polarity_score_multi"
    /\ pc = "gen_graph"
    /\ exc = "none"
    /\ IdleWeb
    /\ arg \in [connected : {FALSE}, remove_isolated : {TRUE}, directed : BOOLEAN,
                metric : {"degree_centrality"}, k : {DefaultK},
                iterations : 1..MaxIter]
    /\ replies = {}
    /\ date = 1
    /\ campaign_data = <<>>
    /\ json_file = <<>>
    /\ IdleUnit
    /\ IdleScore

\* gen_graph called with the run's arguments
CallGenGraph ==
    /\ entry \in {"polarity_score_multi", "gen_graph"}
    /\ pc = "gen_graph"
    /\ \E rows \in EdgeLists(MaxUsers, MaxEdges) :
       \E out \in gen_graph(rows, arg.connected, arg.remove_isolated, arg.directed) :
          /\ called' = {"gen_graph"}
          /\ IF out.exc # "none"
             THEN /\ pc' = "raised"
                  /\ exc' = out.exc
                  /\ G' = out.val
             ELSE /\ pc' = IF entry = "gen_graph" \/ out.val.nodes = {}
                           THEN "returned" ELSE "gen_partitions"
                  /\ exc' = exc
                  /\ G' = out.val
    /\ UNCHANGED <<runVars, campaignVars, parts, influencers, scoreVars>>

NextSim ==
    \/ CallGenGraph
    \/ GenPartitions
    \/ GetInfluencers
    \/ EnterScore
    \/ Sample
    \/ WalkStep
    \/ Accumulate
    \/ ReturnScore

SpecSim == InitSim /\ [][NextSim]_vars

(***************************************************************************)
(* gen_graph called directly, categories "retweet" and "reply", with the   *)
(* flags a caller can give it.                                             *)
(***************************************************************************)
InitGraph ==
    /\ entry = "gen_graph"
    /\ pc = "gen_graph"
    /\ exc = "none"
    /\ IdleWeb
    /\ \E c \in BOOLEAN, r \in BOOLEAN, d \in BOOLEAN :
          arg = [DefaultArgs EXCEPT !.connected = c, !.remove_isolated = r,
                                   !.directed = d]
    /\ replies = {}
    /\ date = 1
    /\ campaign_data = <<>>
    /\ json_file = <<>>
    /\ IdleUnit
    /\ IdleScore

NextGraph == CallGenGraph

SpecGraph == InitGraph /\ [][NextGraph]_vars

(***************************************************************************)
(* get_influencer_matrix called directly on a graph of gen_graph and a     *)
(* partition of gen_partitions, with a percentage k of the caller.         *)
(***************************************************************************)
InitInfl ==
    /\ entry = "get_influencer_matrix"
    /\ pc = "get_influencer_matrix"
    /\ exc = "none"
    /\ IdleWeb
    /\ \E kk \in KPcts : \E mt \in Metrics :
          arg = [DefaultArgs EXCEPT !.connected = FALSE, !.k = kk, !.metric = mt]
    /\ replies = {}
    /\ date = 1
    /\ campaign_data = <<>>
    /\ json_file = <<>>
    /\ called = {}
    /\ \E rows \in EdgeLists(InflUsers, InflEdges) \ {{}} : \E d \in BOOLEAN :
       \E out \in gen_graph(rows, FALSE, TRUE, d) : G = out.val
    /\ parts \in {res[1] : res \in gen_partitions(G)}
    /\ influencers = <<>>
    /\ IdleScore

NextInfl == GetInfluencers

SpecInfl == InitInfl /\ [][NextInfl]_vars

(***************************************************************************)
(* polarity_score_multi called after random.seed, in one thread, on a      *)
(* graph of gen_graph, a partition of gen_partitions into two or more      *)
(* communities, the matrix of get_influencer_matrix and a table of reply   *)
(* sentiments.                                                             *)
(***************************************************************************)
InitSeed ==
    /\ entry = "random.seed"
    /\ pc = "polarity_score_multi"
    /\ exc = "none"
    /\ IdleWeb
    /\ \E d \in BOOLEAN, it \in 0..SeedIter :
          /\ arg = [DefaultArgs EXCEPT !.connected = FALSE, !.directed = d,
                                       !.iterations = it]
          /\ \E rows \in EdgeLists(SeedUsers, SeedEdges) \ {{}} :
             \E out \in gen_graph(rows, FALSE, TRUE, d) : G = out.val
    /\ replies \in ReplyTables
    /\ date = 1
    /\ campaign_data = <<>>
    /\ json_file = <<>>
    /\ called = {}
    /\ parts \in {res[1] : res \in {r \in gen_partitions(G) : SimulatorInvoked(r[1][1])}}
    /\ influencers \in {out.val : out \in get_influencer_matrix(G, parts, arg.metric, arg.k)}
    /\ IdleScore

NextSeed ==
    \/ EnterScore
    \/ Sample
    \/ WalkStep
    \/ Accumulate
    \/ ReturnScore

SpecSeed == InitSeed /\ [][NextSeed]_vars

\* the reply-sentiment table walks are followed on: every user has replied
\* to every user, with positive above negative towards the users of no
\* higher id and negative above positive towards the others
WalkReplies ==
    {[author |-> a, reply_to |-> b,
      pos |-> IF b <= a THEN 2 ELSE 1, neg |-> IF b <= a THEN 1 ELSE 2] :
        a \in 1..WalkUsers, b \in 1..WalkUsers}

(***************************************************************************)
(* _random_walk_multi called as line 261 calls it: on a graph of gen_graph, *)
(* a partition of gen_partitions into two or more communities, the matrix  *)
(* of get_influencer_matrix and a node of one of the communities.          *)
(***************************************************************************)
InitWalk ==
    /\ entry = "_random_walk_multi"
    /\ pc = "walk"
    /\ exc = "none"
    /\ IdleWeb
    /\ \E d \in BOOLEAN :
          /\ arg = [DefaultArgs EXCEPT !.connected = FALSE, !.directed = d]
          /\ \E rows \in EdgeLists(WalkUsers, WalkEdges) \ {{}} :
             \E out \in gen_graph(rows, FALSE, TRUE, d) : G = out.val
    /\ replies = WalkReplies
    /\ date = 1
    /\ campaign_data = <<>>
    /\ json_file = <<>>
    /\ called = {"_random_walk_multi"}
    /\ parts \in {res[1] : res \in {r \in gen_partitions(G) : SimulatorInvoked(r[1][1])}}
    /\ influencers \in {out.val : out \in get_influencer_matrix(G, parts, arg.metric, arg.k)}
    /\ x = 0
    /\ k \in 1..parts[1]
    /\ node \in parts[2][k]
    /\ side = NoSide
    /\ sentiment_parts = [i \in 1..Len(parts[2]) |-> 0]
    /\ j = 1
    /\ rwc_matrix = ZeroMatrix(parts[1])
    /\ rwc_matrix_sentiment = ZeroMatrix(parts[1])
    /\ polarity_score = <<>>
    /\ draws = <<>>

NextWalk == WalkStep

SpecWalk == InitWalk /\ [][NextWalk]_vars

(***************************************************************************)
(* _calc_polarity called directly on two n x n matrices.  The matrices     *)
(* have one value on the diagonal, one off it and, in the first matrix,    *)
(* one cell set apart; the example of the engine's documentation is added. *)
(***************************************************************************)
CalcMatrix(n, den, d, o, cell, xv) ==
    [r \in 1..n |-> [c \in 1..n |->
        Rat(IF <<r, c>> = cell THEN xv ELSE IF r = c THEN d ELSE o, den)]]

DocExample ==
    [M |-> <<<<Rat(7, 10), Rat(3, 10)>>, <<Rat(4, 10), Rat(6, 10)>>>>,
     S |-> <<<<RInt(0), RInt(0)>>, <<RInt(0), RInt(0)>>>>]

InitCalc ==
    /\ entry = "_calc_polarity"
    /\ pc = "_calc_polarity"
    /\ exc = "none"
    /\ IdleWeb
    /\ arg = DefaultArgs
    /\ replies = {}
    /\ date = 1
    /\ campaign_data = <<>>
    /\ json_file = <<>>
    /\ IdleUnit
    /\ x = 0
    /\ k = 0
    /\ node = NoNode
    /\ side = NoSide
    /\ sentiment_parts = <<>>
    /\ j = 0
    /\ \/ /\ rwc_matrix = DocExample.M
          /\ rwc_matrix_sentiment = DocExample.S
       \/ \E n \in 1..MaxN, den \in 1..MaxDen :
          \E d \in 0..MaxNum, o \in 0..MaxNum, xv \in 0..MaxNum :
          \E sd \in 0..MaxNum, so \in 0..MaxNum, cell \in (1..n) \X (1..n) :
             /\ rwc_matrix = CalcMatrix(n, den, d, o, cell, xv)
             /\ rwc_matrix_sentiment = CalcMatrix(n, den, sd, so, <<0, 0>>, 0)
    /\ polarity_score = <<>>
    /\ draws = <<>>

NextCalc == ReturnScore

SpecCalc == InitCalc /\ [][NextCalc]_vars

(***************************************************************************)
(* Properties.                                                             *)
(***************************************************************************)
SimulatorFunctions == {"get_influencer_matrix", "polarity_score_multi", "_calc_polarity"}

\* C1: for a unit whose partition has at most one community analyse_polarity
\* records pscore = 0.0 and invokes none of get_influencer_matrix,
\* polarity_score_multi and _calc_polarity, so that the division by n - 1 is
\* never made with n = 1.
C1_SingleCommunityShortCircuit ==
    /\ \A d \in 1..Len(campaign_data) :
          (campaign_data[d] # <<>> /\ campaign_data[d][1].num_communities <= 1)
              => campaign_data[d][1].pscore = RInt(0)
    /\ (entry = "analyse_polarity" /\ parts # NoParts /\ parts[1] <= 1)
          => /\ called \cap SimulatorFunctions = {}
             /\ campaign_data[Len(campaign_data)] # <<>>
             /\ campaign_data[Len(campaign_data)][1].num_communities = parts[1]
    /\ entry = "analyse_polarity" => exc # "ZeroDivisionError"

\* C1's case: a unit with a single community has been stored
C1_Witness ==
    /\ entry = "analyse_polarity"
    /\ parts # NoParts
    /\ parts[1] = 1
    /\ campaign_data[Len(campaign_data)] # <<>>
    /\ campaign_data[Len(campaign_data)][1].num_communities = 1
    /\ campaign_data[Len(campaign_data)][1].pscore = RInt(0)

RECURSIVE RowSum(_, _)
RowSum(row, upto) ==
    IF upto = 0 THEN RInt(0) ELSE RAdd(RowSum(row, upto - 1), row[upto])

\* the entry is a whole number of increments of 1/iterations, at most all
WholeIncrements(e, iterations) ==
    LET cnt == Rat(e[1] * iterations, e[2])
    IN  cnt[2] = 1 /\ cnt[1] \in 0..iterations

\* C2: when polarity_score_multi returns (n >= 2, iterations >= 1) every row
\* of the crossing matrix holds iterations increments of 1/iterations spread
\* over its n columns, and sums to 1.
C2_RowsSumToOne ==
    (entry = "polarity_score_multi" /\ pc = "returned" /\ polarity_score # <<>>
        /\ arg.iterations >= 1)
        => /\ Len(rwc_matrix) = parts[1]
           /\ \A i \in 1..parts[1] :
                 /\ Len(rwc_matrix[i]) = parts[1]
                 /\ RowSum(rwc_matrix[i], parts[1]) = RInt(1)
                 /\ \A c \in 1..parts[1] : WholeIncrements(rwc_matrix[i][c], arg.iterations)

\* C2's case: a run of two or more iterations has returned, and the walks of
\* one community ended on different sides
C2_Witness ==
    /\ entry = "polarity_score_multi"
    /\ pc = "returned"
    /\ polarity_score # <<>>
    /\ arg.iterations >= 2
    /\ parts[1] >= 2
    /\ \E i \in 1..parts[1] : \E c1 \in 1..parts[1] : \E c2 \in 1..parts[1] :
          c1 # c2 /\ rwc_matrix[i][c1][1] > 0 /\ rwc_matrix[i][c2][1] > 0

Lcm(a, b) == (a * b) \div GCD(a, b)

RECURSIVE LcmOfDens(_, _, _)
LcmOfDens(M, n, idx) ==
    IF idx > n * n THEN 1
    ELSE Lcm(M[((idx - 1) \div n) + 1][((idx - 1) % n) + 1][2], LcmOfDens(M, n, idx + 1))

\* the sum of f over the cells, f a function of <<row, column>>
RECURSIVE SumCells(_, _)
SumCells(cells, f) ==
    IF cells = {} THEN 0
    ELSE LET cl == CHOOSE cl \in cells : TRUE
         IN  f[cl] + SumCells(cells \ {cl}, f)

\* ( v/(n-1) + vs/n^2 ) / 2 over whole numbers: with D a common denominator
\* of 1/n and the entries of M, and E one of the entries of S,
\*   v = A / D^2,  A = sum (D/n - D*M[i][k])^2;   vs = B / E^2,  B = sum (E*S[i][k])^2
\*   pscore = (A * n^2 * E^2 + B * (n-1) * D^2) / (2 * (n-1) * n^2 * D^2 * E^2)
ClosedForm(M, S) ==
    LET n == Len(M)
        D == Lcm(n, LcmOfDens(M, n, 1))
        E == LcmOfDens(S, n, 1)
        cells == (1..n) \X (1..n)
        DevM == [cl \in cells |->
                    (D \div n) - M[cl[1]][cl[2]][1] * (D \div M[cl[1]][cl[2]][2])]
        NumS == [cl \in cells |-> S[cl[1]][cl[2]][1] * (E \div S[cl[1]][cl[2]][2])]
        A == SumCells(cells, [cl \in cells |-> DevM[cl] * DevM[cl]])
        B == SumCells(cells, [cl \in cells |-> NumS[cl] * NumS[cl]])
    IN  Rat(A * n * n * E * E + B * (n - 1) * D * D, 2 * (n - 1) * n * n * D * D * E * E)

\* C3: for n >= 2 and n x n matrices M and S, _calc_polarity(M, S) is
\* ( v/(n-1) + vs/n^2 ) / 2 with v the sum of (1/n - M[i][k])^2 and vs the sum
\* of S[i][k]^2 over all cells.
C3_ScoreFormula ==
    (entry = "_calc_polarity" /\ pc = "returned")
        => /\ Len(rwc_matrix) >= 2
           /\ polarity_score = <<ClosedForm(rwc_matrix, rwc_matrix_sentiment)>>

\* C3's case: the score of 3 x 3 matrices, M not constant and S not zero
C3_Witness ==
    /\ entry = "_calc_polarity"
    /\ pc = "returned"
    /\ Len(rwc_matrix) = 3
    /\ rwc_matrix[1][1] # rwc_matrix[1][2]
    /\ rwc_matrix[1][2] # rwc_matrix[1][3]
    /\ rwc_matrix_sentiment[1][1][1] > 0
    /\ rwc_matrix_sentiment[1][2][1] > 0

ScoredDocExample ==
    /\ entry = "_calc_polarity"
    /\ pc = "returned"
    /\ rwc_matrix = DocExample.M
    /\ rwc_matrix_sentiment = DocExample.S

\* the v of lines 285-290 for the two matrices
VOf(M, S) == CalcLoop(M, S, Len(M), 1, <<RInt(0), RInt(0)>>)[1]

\* C4 as stated: for M = [[0.7,0.3],[0.4,0.6]] and S = 0 the calculator
\* yields v = 0.08 and pscore = 0.04.
C4_DocExampleAsStated ==
    ScoredDocExample
        => /\ VOf(rwc_matrix, rwc_matrix_sentiment) = Rat(8, 100)
           /\ polarity_score = <<Rat(4, 100)>>

\* C4 amended: for M = [[0.7,0.3],[0.4,0.6]] and S = 0 the calculator yields
\* v = 0.04 + 0.04 + 0.01 + 0.01 = 0.10 and pscore = 0.05.
C4_DocExampleAmended ==
    ScoredDocExample
        => /\ VOf(rwc_matrix, rwc_matrix_sentiment) = Rat(10, 100)
           /\ polarity_score = <<Rat(5, 100)>>

\* C4's case: the example has been scored
C4_Witness == ScoredDocExample /\ polarity_score # <<>>

\* C5: get_influencer_matrix returns for community i at most
\* ceil(k * |community_i| / 100) nodes, the percentage k being the one the
\* caller gave for every community, whatever the sizes of the communities
\* before it: the list has that many nodes, or the whole community if it is
\* smaller.
C5_SamePercentagePerCommunity ==
    (entry = "get_influencer_matrix" /\ pc = "returned")
        => \A i \in 1..Len(influencers) :
              LET k_i == Ceil(arg.k * Cardinality(parts[2][i]), 100)
              IN  /\ Len(influencers[i]) <= k_i
                  /\ Len(influencers[i]) = Min(k_i, Cardinality(parts[2][i]))

\* C6: each gatekeeper list holds the nodes of highest centrality in the
\* subgraph its community induces, in descending order of centrality: no
\* node left out has a strictly higher centrality than a node of the list.
C6_HighestCentralityFirst ==
    (entry = "get_influencer_matrix" /\ pc = "returned"
        /\ arg.metric = "degree_centrality")
        => \A i \in 1..Len(influencers) :
              LET score == degree_centrality(Subgraph(G, parts[2][i]))
                  L == influencers[i]
                  listed == {L[p] : p \in 1..Len(L)}
              IN  /\ \A p \in 1..Len(L) : \A q \in 1..Len(L) :
                         p < q => ~RLess(score[L[p]], score[L[q]])
                  /\ \A u \in parts[2][i] \ listed : \A w \in listed :
                         ~RLess(score[w], score[u])

\* C7: a unit whose edge query yields no edges (no node is left after the
\* filtering) does not make analyse_polarity raise: the zero-valued record is
\* stored for it and the loop goes on.
C7_EmptyGraphZeroRecord ==
    (entry = "analyse_polarity" /\ called = {"gen_graph"} /\ G.nodes = {})
        => /\ pc # "raised"
           /\ exc = "none"
           /\ campaign_data[Len(campaign_data)] = <<ZeroRecord>>

\* C8: a failure while one unit is processed does not abort the campaign
\* loop: the unit gets the zero record and analyse_polarity goes on to the
\* other dates and to the JSON dump.
C8_FailureDoesNotAbort ==
    (entry = "analyse_polarity" /\ exc # "none")
        => /\ pc \in {"gen_graph", "finish", "done"}
           /\ campaign_data[Len(campaign_data)] = <<ZeroRecord>>

\* C9: a walk that stands on a node without neighbours does not make the
\* simulator raise: the sample is dropped and polarity_score_multi goes on.
C9_DeadEndDoesNotRaise ==
    ("polarity_score_multi" \in called /\ node # NoNode /\ Neighbors(G, node) = {})
        => /\ pc # "raised"
           /\ exc = "none"

\* C10: every walk ends within a maximum number of steps: a walk that has
\* made that many moves without meeting a gatekeeper is not walking any
\* more.  (The maximum is taken to be MaxSteps here; j - 1 is the number of
\* moves made.)
C10_WalkEndsWithinCap ==
    (pc = "walk" /\ side = NoSide) => j - 1 < MaxSteps

\* C11: when the centrality of one community's subgraph fails,
\* get_influencer_matrix does not raise: it returns one list per community,
\* the empty list for the community whose centrality failed.
C11_CentralityFailureDegrades ==
    (entry = "get_influencer_matrix" /\ "get_influencer_matrix" \in called)
        => /\ pc = "returned"
           /\ exc = "none"
           /\ Len(influencers) = parts[1]

\* no edge of the graph joins two communities
NoCrossEdges ==
    \A e \in G.edges : \E i \in 1..parts[1] : e[1] \in parts[2][i] /\ e[2] \in parts[2][i]

EchoChamber ==
    /\ "polarity_score_multi" \in called
    /\ parts[1] = 2
    /\ NoCrossEdges

\* C12: on a graph of two communities with no edge between them, a walk
\* started in community i that ends is labelled side = i, and the crossing
\* matrix polarity_score_multi returns after iterations >= 1 is [[1,0],[0,1]].
C12_EchoChamberIdentity ==
    /\ (EchoChamber /\ pc = "accumulate") => side = k
    /\ (EchoChamber /\ pc = "returned" /\ arg.iterations >= 1)
          => rwc_matrix = <<<<RInt(1), RInt(0)>>, <<RInt(0), RInt(1)>>>>

\* C12's case: two communities without an edge between them, one of them of
\* two users, scored over two or more iterations
C12_Witness ==
    /\ EchoChamber
    /\ pc = "returned"
    /\ polarity_score # <<>>
    /\ arg.iterations >= 2
    /\ Cardinality(parts[2][1]) >= 2
    /\ rwc_matrix = <<<<RInt(1), RInt(0)>>, <<RInt(0), RInt(1)>>>>

\* polarity_score_multi replayed on a sequence of draws: the locals after
\* lines 249-256, and what one draw of the sequence makes of them (the start
\* node of line 260, or the move of line 221 with what follows it up to the
\* next draw).  Nothing but the arguments, the reply table and the draw
\* enters.
ReplayStart ==
    [phase |-> IF arg.iterations > 0 /\ parts[1] > 0 THEN "sample" ELSE "done",
     x |-> 0, k |-> 1, node |-> NoNode, votes |-> <<>>,
     M |-> ZeroMatrix(parts[1]), S |-> ZeroMatrix(parts[1])]

ReplayDraw(st, r) ==
    IF st.phase = "sample"
    THEN [st EXCEPT !.node = AtIndex(parts[2][st.k], r),
                    !.votes = [i \in 1..Len(parts[2]) |-> 0],
                    !.phase = "walk"]
    ELSE IF st.phase = "walk"
    THEN LET nxt == AtIndex(Neighbors(G, st.node), r)
             votes == VotesAdded(replies, parts[2], st.votes, nxt)
             sd == SideOf(influencers, nxt, NoSide)
             S2 == [st.S EXCEPT ![st.k] =
                       [c \in 1..Len(votes) |->
                           RAdd(st.S[st.k][c], SentimentIncrement(votes[c], arg.iterations))]]
             M2 == [st.M EXCEPT ![st.k][sd] = RAdd(st.M[st.k][sd], Increment(arg.iterations))]
         IN  IF nxt = NoNode THEN [st EXCEPT !.phase = "undefined"]
             ELSE IF sd = NoSide THEN [st EXCEPT !.node = nxt, !.votes = votes]
             ELSE IF st.k < parts[1]
             THEN [st EXCEPT !.node = nxt, !.votes = votes, !.M = M2, !.S = S2,
                             !.k = st.k + 1, !.phase = "sample"]
             ELSE [st EXCEPT !.node = nxt, !.votes = votes, !.M = M2, !.S = S2,
                             !.k = 1, !.x = st.x + 1,
                             !.phase = IF st.x + 1 < arg.iterations THEN "sample" ELSE "done"]
    ELSE [st EXCEPT !.phase = "undefined"]

RECURSIVE Replay(_, _, _)
Replay(st, ds, i) ==
    IF i > Len(ds) THEN st ELSE Replay(ReplayDraw(st, ds[i]), ds, i + 1)

SeededRunReturned ==
    /\ entry = "random.seed"
    /\ pc = "returned"

\* C13: two single-threaded runs of polarity_score_multi on the same graph,
\* partition, gatekeepers, sentiment data and iteration count that get the
\* same sequence of random draws return the same crossing matrix, sentiment
\* matrix and pscore: what a run returns is the value of one function of
\* those arguments and of the sequence of its draws.
C13_SameDrawsSameResult ==
    SeededRunReturned
        => LET st == Replay(ReplayStart, draws, 1)
           IN  /\ st.phase = "done"
               /\ rwc_matrix = st.M
               /\ rwc_matrix_sentiment = st.S
               /\ polarity_score = <<_calc_polarity(st.M, st.S).val>>

\* C13's case: a seeded run has returned; one of its draws was not the first
\* element of its list, and a reply sentiment was counted
C13_Witness ==
    /\ SeededRunReturned
    /\ \E i \in 1..Len(draws) : draws[i] > 1
    /\ \E r \in 1..Len(rwc_matrix_sentiment) : \E c \in 1..Len(rwc_matrix_sentiment) :
          rwc_matrix_sentiment[r][c][1] > 0

\* C14: the graph gen_graph returns has no self-loop, whatever the edge
\* rows, rows with the same user as source and target included.
C14_NoSelfLoops ==
    ("gen_graph" \in called /\ exc = "none")
        => \A e \in G.edges : e[1] # e[2]

\* the graph is one component when the directions of its edges are ignored
OneComponent(Gr) ==
    Gr.nodes # {} /\ Joined(Gr, Gr.nodes, {CHOOSE v \in Gr.nodes : TRUE}) = Gr.nodes

\* C15: in connected mode gen_graph returns, for an undirected and for a
\* directed graph alike, one connected component of the filtered graph (a
\* largest one), the nodes of the other components being discarded.
C15_ConnectedModeOneComponent ==
    (entry = "gen_graph" /\ "gen_graph" \in called /\ arg.connected /\ G.nodes # {})
        => /\ pc = "returned"
           /\ exc = "none"
           /\ OneComponent(G)

\* C16: polarity_score_multi called with iterations = 0 is rejected as an
\* invalid configuration: it returns no matrices and no pscore.
C16_ZeroIterationsRejected ==
    ("polarity_score_multi" \in called /\ arg.iterations = 0)
        => /\ pc # "returned"
           /\ polarity_score = <<>>

(***************************************************************************)
(* The web application (src/xtrack_web/app.py): the table that keys the    *)
(* stored results of a query (DBConnector, db_connector.py) and the        *)
(* network analysis behind a request (NetworkAnalyzer, Analyzer).          *)
(*  - A Python value that may be None is a sequence here: <<>> for None,   *)
(*    <<v>> for v; the hashtags of a request are the tuple itself, and     *)
(*    <<>> when the request names none (app.py line 476 never leaves an    *)
(*    empty tuple).                                                        *)
(*  - A nullable column is <<>> for NULL and <<s>> for the string s.       *)
(***************************************************************************)
\* largest number of rows of campaign_analysis a request is accepted with
MaxRows == 2

Campaigns == {"c1", "c2"}

\* hashtags = None (app.py line 476)
NoHashtags == <<>>

\* the values app.py lines 475-476 give for the fields "", "a" and "a,b"
HashtagTuples == {NoHashtags, <<"a">>, <<"a", "b">>}

\* str.join
RECURSIVE join(_, _)
join(sep, t) ==
    IF Len(t) = 0 THEN ""
    ELSE IF Len(t) = 1 THEN t[1]
    ELSE t[1] \o sep \o join(sep, Tail(t))

\* SQL: v IN (t[1], ..., t[n])
InTuple(v, t) == \E i \in 1..Len(t) : t[i] = v

\* SELECT COALESCE(MAX(id), 0) + 1 FROM campaign_analysis
_retrieve_next_available_results_id(table) ==
    IF table = {} THEN 1
    ELSE (CHOOSE m \in {r.id : r \in table} :
             \A r \in table : r.id <= m) + 1

\* the outcomes of check_existing_results: the query has no ORDER BY, so
\* the first row of its result is any of the rows it selects
check_existing_results(table, campaign, hashtags) ==
    LET query_df ==
            {r \in table :
                /\ r.campaign = campaign
                /\ IF hashtags = NoHashtags
                   THEN r.hashtags = <<>>
                   ELSE r.hashtags # <<>> /\ InTuple(r.hashtags[1], hashtags)}
    IN  IF query_df # {}
        THEN {<<TRUE, r.id>> : r \in query_df}
        ELSE {<<FALSE, _retrieve_next_available_results_id(table)>>}

insert_new_results_row(table, results_id, campaign, hashtags) ==
    LET stored == IF hashtags # NoHashtags
                  THEN <<join(", ", hashtags)>>
                  ELSE <<>>
    IN  table \cup {[id |-> results_id, campaign |-> campaign,
                     hashtags |-> stored]}

\* the edge tables build_new_results can compute for a query: the empty one
\* and one with a single edge
Networks == {{}, {[source |-> 1, target |-> 2, weight |-> 1]}}

\* the network types _network_metric_analysis asks for, in its order
NetworkTypes == <<"retweet", "reply">>

\* pre_computed_results_query with its parameters
pre_computed_results(rows, campaign_analysis_id, network_type) ==
    {[source |-> r.source, target |-> r.target, weight |-> r.weight] :
        r \in {q \in rows : /\ q.campaign_analysis_id = campaign_analysis_id
                            /\ q.network_type = network_type}}

\* Analyzer.check_for_pre_computed_results: <<found, self.analysis_results>>
check_for_pre_computed_results(results, analysis_df, formatting_function) ==
    LET found_precomputed_results == Cardinality(analysis_df) > 0
    IN  <<found_precomputed_results,
          IF found_precomputed_results /\ formatting_function # <<>>
          THEN <<analysis_df>>
          ELSE results>>

\* build_new_results, step 6: the rows appended to network_analysis_results
edge_df(network, campaign_analysis_id, network_type) ==
    {[campaign_analysis_id |-> campaign_analysis_id, source |-> e.source,
      target |-> e.target, weight |-> e.weight,
      network_type |-> network_type] : e \in network}

\* analyze_campaigns, lines 473-488: a request arrives and its stored
\* results are looked up
CheckExistingResults ==
    /\ pc = "analyze_campaigns"
    /\ Cardinality(campaign_analysis) < MaxRows
    /\ \E campaigns \in Campaigns, hashtags \in HashtagTuples :
          /\ request' = [campaigns |-> campaigns, hashtags |-> hashtags]
          /\ \E out \in check_existing_results(campaign_analysis, campaigns,
                                               hashtags) :
                campaign_analysis_stored_results' = out
    /\ pc' = "insert_new_results_row"
    /\ exc' = "none"
    /\ called' = {}
    /\ analysis_results' = <<>>
    /\ UNCHANGED <<entry, arg, replies, reply_sentiment, raceVars, campaign_analysis,
                   network_analysis_results, campaignVars, G, parts,
                   influencers, scoreVars>>

\* analyze_campaigns, lines 489-490
InsertNewResultsRow ==
    /\ pc = "insert_new_results_row"
    /\ campaign_analysis' =
          IF ~campaign_analysis_stored_results[1]
          THEN insert_new_results_row(campaign_analysis,
                                      campaign_analysis_stored_results[2],
                                      request.campaigns, request.hashtags)
          ELSE campaign_analysis
    /\ pc' = NetworkTypes[1]
    /\ UNCHANGED <<entry, arg, replies, reply_sentiment, raceVars, exc,
                   network_analysis_results, request,
                   campaign_analysis_stored_results, analysis_results,
                   campaignVars, unitVars, scoreVars>>

\* _network_metric_analysis, lines 341-344: NetworkAnalyzer(...).analyze of
\* the network type pc names, on a new NetworkAnalyzer (analysis_results is
\* None, _analyzer.py line 38), and _prepare_network_results of its result
NetworkAnalyze ==
    /\ pc \in {NetworkTypes[i] : i \in 1..Len(NetworkTypes)}
    /\ LET campaign_analysis_id == campaign_analysis_stored_results[2]
           analysis_df == pre_computed_results(network_analysis_results,
                                               campaign_analysis_id, pc)
           checked == check_for_pre_computed_results(<<>>, analysis_df, <<>>)
           is_precomputed == checked[1]
       IN  /\ IF is_precomputed
              THEN /\ analysis_results' = checked[2]
                   /\ called' = {"analyze"}
                   /\ UNCHANGED network_analysis_results
              ELSE \E network \in Networks :
                      /\ analysis_results' = <<network>>
                      /\ called' = {"analyze", "build_new_results"}
                      /\ network_analysis_results' =
                            network_analysis_results \cup
                            edge_df(network, campaign_analysis_id, pc)
           /\ IF analysis_results' = <<>>
              THEN /\ exc' = "AttributeError"
                   /\ pc' = "analyze_campaigns"
              ELSE /\ exc' = "none"
                   /\ pc' = IF pc = NetworkTypes[1] THEN NetworkTypes[2]
                            ELSE "analyze_campaigns"
    /\ UNCHANGED <<entry, arg, replies, reply_sentiment, raceVars, campaign_analysis, request,
                   campaign_analysis_stored_results, campaignVars, G, parts,
                   influencers, scoreVars>>

InitWeb ==
    /\ entry = "analyze_campaigns"
    /\ pc = "analyze_campaigns"
    /\ exc = "none"
    /\ arg = DefaultArgs
    /\ replies = {}
    /\ date = 1
    /\ campaign_data = <<>>
    /\ json_file = <<>>
    /\ IdleUnit
    /\ IdleScore
    /\ IdleWeb

NextWeb ==
    \/ CheckExistingResults
    \/ InsertNewResultsRow
    \/ NetworkAnalyze

SpecWeb == InitWeb /\ [][NextWeb]_vars

(***************************************************************************)
(* C17: check_existing_results(campaign, hashtags) returns (True, id) if   *)
(* and only if insert_new_results_row(id, campaign, hashtags) stored a row *)
(* for the same campaign and the same hashtag tuple before: a query that   *)
(* was inserted is found again with its id, and a query with another       *)
(* hashtag tuple is not matched to it.  join is one-to-one on the tuples   *)
(* of a request, so the row stored for a tuple is the one with its join.   *)
(***************************************************************************)
StoredFor(campaign, hashtags) ==
    {r \in campaign_analysis :
        /\ r.campaign = campaign
        /\ r.hashtags = IF hashtags # NoHashtags
                        THEN <<join(", ", hashtags)>>
                        ELSE <<>>}

C17_FoundIffInserted ==
    (pc = "insert_new_results_row") =>
        LET rows == StoredFor(request.campaigns, request.hashtags)
        IN  /\ campaign_analysis_stored_results[1] <=> rows # {}
            /\ campaign_analysis_stored_results[1] =>
                  campaign_analysis_stored_results[2] \in {r.id : r \in rows}

(***************************************************************************)
(* C18: NetworkAnalyzer.analyze returns the DataFrame of the network, both *)
(* when build_new_results computes it and when rows for                    *)
(* (campaign_analysis_id, network_type) are already stored; with stored    *)
(* rows build_new_results is not invoked and the value returned is the     *)
(* stored network, never None.                                             *)
(***************************************************************************)
C18_AnalyzeReturnsNetwork ==
    ("analyze" \in called) =>
        /\ analysis_results # <<>>
        /\ "build_new_results" \notin called =>
              \E t \in {"retweet", "reply"} :
                 analysis_results[1] =
                    pre_computed_results(network_analysis_results,
                                         campaign_analysis_stored_results[2], t)

(***************************************************************************)
(* C19: a terminated walk started in community k adds 1/iterations to      *)
(* exactly one cell of row k of the crossing matrix, the one of column     *)
(* side; adds max(sentiment_parts[c] / iterations, 0) to cell c of row k   *)
(* of the sentiment matrix, for every c; and leaves every other row of     *)
(* both matrices as it was.                                                *)
(***************************************************************************)
WalkShare(votes) ==
    IF votes > 0 THEN Rat(votes, arg.iterations) ELSE RInt(0)

C19_WalkChangesOneRow ==
    [][(pc = "accumulate") =>
          /\ Len(rwc_matrix') = Len(rwc_matrix)
          /\ Len(rwc_matrix_sentiment') = Len(rwc_matrix_sentiment)
          /\ \A r \in 1..Len(rwc_matrix) :
                IF r # k
                THEN /\ rwc_matrix'[r] = rwc_matrix[r]
                     /\ rwc_matrix_sentiment'[r] = rwc_matrix_sentiment[r]
                ELSE \A c \in 1..Len(rwc_matrix[r]) :
                        /\ rwc_matrix'[r][c] =
                              IF c = side
                              THEN RAdd(rwc_matrix[r][c], Rat(1, arg.iterations))
                              ELSE rwc_matrix[r][c]
                        /\ rwc_matrix_sentiment'[r][c] =
                              RAdd(rwc_matrix_sentiment[r][c],
                                   WalkShare(sentiment_parts[c]))]_vars

\* two walks have been added, one of them with a positive vote for a
\* community and one with a negative vote
C19_Witness ==
    /\ pc = "_calc_polarity"
    /\ x >= 1
    /\ Len(rwc_matrix) >= 2
    /\ \E r \in 1..Len(rwc_matrix), c \in 1..Len(rwc_matrix) :
          RLess(RInt(0), rwc_matrix_sentiment[r][c])
    /\ \E c \in 1..Len(sentiment_parts) : sentiment_parts[c] < 0

(***************************************************************************)
(* C20: a walk tests for a gatekeeper only the node a move has reached.    *)
(* A walk that has not moved yet has not ended, whatever its start node;   *)
(* a walk still going after a move stands on a node of no gatekeeper list; *)
(* a walk that returned has made at least one move and stands on a node of *)
(* the gatekeeper list of community side.                                  *)
(***************************************************************************)
Row(infl, i) == {infl[i][p] : p \in 1..Len(infl[i])}

Gatekeepers(infl) == UNION {Row(infl, i) : i \in 1..Len(infl)}

C20_GatekeeperTestAfterMove ==
    (entry = "_random_walk_multi") =>
        /\ (pc = "walk" /\ j = 1) => side = NoSide
        /\ (pc = "walk" /\ j > 1) =>
              /\ side = NoSide
              /\ node \notin Gatekeepers(influencers)
        /\ (pc = "returned") =>
              /\ j >= 2
              /\ side \in 1..Len(influencers)
              /\ node \in Row(influencers, side)

\* a walk whose start node was a gatekeeper, whichever node of community k
\* it was, has moved twice or more and ended in another community
C20_Witness ==
    /\ entry = "_random_walk_multi"
    /\ pc = "returned"
    /\ parts[2][k] \subseteq Gatekeepers(influencers)
    /\ j >= 3
    /\ side # k

(***************************************************************************)
(* _get_reply_sentiment called on its own, for one user and one community, *)
(* on a reply-sentiment table of up to MaxReplies rows whose scores are    *)
(* 0..MaxScore.                                                            *)
(***************************************************************************)
MaxReplies == 2
MaxScore == 2
\* the users of the table: the author asked for and the users replied to
LookupUsers == 2

ReplyRows ==
    [author : {1}, reply_to : 1..LookupUsers, pos : 0..MaxScore,
     neg : 0..MaxScore]

InitLookup ==
    /\ entry = "_get_reply_sentiment"
    /\ pc = "_get_reply_sentiment"
    /\ exc = "none"
    /\ IdleWeb
    /\ arg = DefaultArgs
    /\ replies \in {t \in SUBSET ReplyRows : Cardinality(t) <= MaxReplies}
    /\ date = 1
    /\ campaign_data = <<>>
    /\ json_file = <<>>
    /\ called = {}
    /\ G = EmptyGraph(FALSE)
    /\ \E part \in (SUBSET (1..LookupUsers)) \ {{}} : parts = <<1, <<part>>>>
    /\ influencers = <<>>
    /\ x = 0
    /\ k = 0
    /\ node = 1
    /\ side = NoSide
    /\ sentiment_parts = <<0>>
    /\ j = 1
    /\ rwc_matrix = <<>>
    /\ rwc_matrix_sentiment = <<>>
    /\ polarity_score = <<>>
    /\ draws = <<>>

\* lines 226-234 for one community: the lookup and the vote it gives
GetReplySentiment ==
    /\ pc = "_get_reply_sentiment"
    /\ reply_sentiment' = <<_get_reply_sentiment(replies, node, parts[2][1])>>
    /\ sentiment_parts' = VotesAdded(replies, parts[2], sentiment_parts, node)
    /\ called' = {"_get_reply_sentiment"}
    /\ pc' = "returned"
    /\ UNCHANGED <<entry, arg, replies, webVars, exc, campaignVars, G, parts,
                   influencers, x, k, node, side, j, rwc_matrix,
                   rwc_matrix_sentiment, polarity_score, draws>>

NextLookup == GetReplySentiment

SpecLookup == InitLookup /\ [][NextLookup]_vars

(***************************************************************************)
(* C21: the lookup returns (avg_positive, avg_negative) of the node's      *)
(* replies to the community whenever the table has such replies, and       *)
(* (0, 0) only when it has none; so with avg_positive = 0 and              *)
(* avg_negative > 0 the walk's vote for the community is +1.               *)
(***************************************************************************)
RepliesTo(user_id, part) ==
    {r \in replies : r.author = user_id /\ r.reply_to \in part}

C21_LookupReturnsAverages ==
    (entry = "_get_reply_sentiment" /\ pc = "returned") =>
        LET rows == RepliesTo(node, parts[2][1])
            n == Cardinality(rows)
        IN  IF rows = {}
            THEN reply_sentiment[1] = <<RInt(0), RInt(0)>>
            ELSE /\ reply_sentiment[1] = <<Rat(SumOf(rows, "pos"), n),
                                     Rat(SumOf(rows, "neg"), n)>>
                 /\ (SumOf(rows, "pos") = 0 /\ SumOf(rows, "neg") > 0) =>
                       sentiment_parts[1] = 1

(***************************************************************************)
(* C22: every step of a walk adds exactly one vote to sentiment_parts[c],  *)
(* for every community c: +1 when the lookup's negative value exceeds its  *)
(* positive value, -1 when positive exceeds negative, 0 otherwise; so      *)
(* after s steps every sentiment_parts[c] lies in [-s, s].  (j - 1 is the  *)
(* number of steps made.)                                                  *)
(***************************************************************************)
ExpectedVote(nd, part) ==
    LET looked == _get_reply_sentiment(replies, nd, part)
        positive == looked[1]
        negative == looked[2]
    IN  IF RLess(positive, negative) THEN 1
        ELSE IF RLess(negative, positive) THEN -1
        ELSE 0

VotesWithinSteps ==
    (pc \in {"walk", "accumulate", "returned"}) =>
        \A c \in 1..Len(sentiment_parts) :
           /\ sentiment_parts[c] <= j - 1
           /\ sentiment_parts[c] >= 1 - j

OneVotePerStep ==
    (pc = "walk" /\ j' = j + 1) =>
        /\ Len(sentiment_parts') = Len(parts[2])
        /\ \A c \in 1..Len(parts[2]) :
              sentiment_parts'[c] =
                  sentiment_parts[c] + ExpectedVote(node', parts[2][c])

SentimentNonNegative ==
    \A r \in 1..Len(rwc_matrix_sentiment) :
       \A c \in 1..Len(rwc_matrix_sentiment[r]) :
          ~RLess(rwc_matrix_sentiment[r][c], RInt(0))

SentimentNeverLowered ==
    (pc # "polarity_score_multi") =>
        /\ Len(rwc_matrix_sentiment') = Len(rwc_matrix_sentiment)
        /\ \A r \in 1..Len(rwc_matrix_sentiment) :
              \A c \in 1..Len(rwc_matrix_sentiment[r]) :
                 ~RLess(rwc_matrix_sentiment'[r][c], rwc_matrix_sentiment[r][c])
        /\ (pc = "accumulate") =>
              \A c \in 1..Len(sentiment_parts) :
                 (sentiment_parts[c] < 0) =>
                    rwc_matrix_sentiment'[k][c] = rwc_matrix_sentiment[k][c]

C23_SentimentMatrixMonotone ==
    [](SentimentNonNegative) /\ [][SentimentNeverLowered]_vars

\* the last walk of a simulation had a negative net vote for a community,
\* whose cell is still 0, while another cell of the matrix has grown
C23_Witness ==
    /\ pc = "_calc_polarity"
    /\ "polarity_score_multi" \in called
    /\ \E c \in 1..Len(sentiment_parts) :
          /\ sentiment_parts[c] < 0
          /\ rwc_matrix_sentiment[k][c] = RInt(0)
    /\ \E r \in 1..Len(rwc_matrix_sentiment) :
       \E c \in 1..Len(rwc_matrix_sentiment[r]) :
          RLess(RInt(0), rwc_matrix_sentiment[r][c])

(***************************************************************************)
(* polarity_score_multi called for one iteration on a graph of gen_graph,  *)
(* a partition of gen_partitions into two or more communities and the      *)
(* matrix of get_influencer_matrix, with the reply table WalkReplies.       *)
(***************************************************************************)
InitScore ==
    /\ entry = "polarity_score_multi"
    /\ pc = "polarity_score_multi"
    /\ exc = "none"
    /\ IdleWeb
    /\ \E d \in BOOLEAN :
          /\ arg = [DefaultArgs EXCEPT !.connected = FALSE, !.directed = d,
                                       !.iterations = 1]
          /\ \E rows \in EdgeLists(WalkUsers, WalkEdges) \ {{}} :
             \E out \in gen_graph(rows, FALSE, TRUE, d) : G = out.val
    /\ replies = WalkReplies
    /\ date = 1
    /\ campaign_data = <<>>
    /\ json_file = <<>>
    /\ called = {}
    /\ parts \in {res[1] : res \in {r \in gen_partitions(G) : SimulatorInvoked(r[1][1])}}
    /\ influencers \in {out.val : out \in get_influencer_matrix(G, parts, arg.metric, arg.k)}
    /\ IdleScore

NextScore ==
    \/ EnterScore
    \/ Sample
    \/ WalkStep
    \/ Accumulate
    \/ ReturnScore

SpecScore == InitScore /\ [][NextScore]_vars

(***************************************************************************)
(* C24: the polarization score is in the range 0 to 1: for every n >= 2    *)
(* and every pair of matrices polarity_score_multi produces, whatever the  *)
(* lengths of the walks and their votes, 0 <= pscore <= 1.                 *)
(***************************************************************************)
C24_PscoreInUnitRange ==
    (polarity_score # <<>>) =>
        /\ ~RLess(polarity_score[1], RInt(0))
        /\ ~RLess(RInt(1), polarity_score[1])

(***************************************************************************)
(* polarity_score_multi called for two iterations after random.seed, as    *)
(* in SpecSeed: every community starts two walks.                          *)
(***************************************************************************)
InitOrder ==
    /\ entry = "random.seed"
    /\ pc = "polarity_score_multi"
    /\ exc = "none"
    /\ IdleWeb
    /\ \E d \in BOOLEAN :
          /\ arg = [DefaultArgs EXCEPT !.connected = FALSE, !.directed = d,
                                       !.iterations = 2]
          /\ \E rows \in EdgeLists(SeedUsers, SeedEdges) \ {{}} :
             \E out \in gen_graph(rows, FALSE, TRUE, d) : G = out.val
    /\ replies \in ReplyTables
    /\ date = 1
    /\ campaign_data = <<>>
    /\ json_file = <<>>
    /\ called = {}
    /\ parts \in {res[1] : res \in {r \in gen_partitions(G) : SimulatorInvoked(r[1][1])}}
    /\ influencers \in {out.val : out \in get_influencer_matrix(G, parts, arg.metric, arg.k)}
    /\ IdleScore

NextOrder ==
    \/ EnterScore
    \/ Sample
    \/ WalkStep
    \/ Accumulate
    \/ ReturnScore

SpecOrder == InitOrder /\ [][NextOrder]_vars

(***************************************************************************)
(* C25: the walks of a simulation are independent units of work.  The      *)
(* outcome (side, sentiment_parts) of a walk is a function of the graph,   *)
(* the partition, the gatekeeper lists, the reply table and the walk's own *)
(* draws, and of neither matrix nor of another walk; and the matrices the  *)
(* simulation returns are the sum of what its walks add, taken in any      *)
(* order and over any split of the walks into partial matrices that are    *)
(* summed at the end (three partials here).                                *)
(***************************************************************************)
\* a walk from node nd on the draws ds[i], ds[i+1], ...: its outcome and the
\* position of its last draw
RECURSIVE WalkOn(_, _, _, _)
WalkOn(nd, votes, ds, i) ==
    IF i > Len(ds) THEN [side |-> NoSide, votes |-> votes, last |-> i - 1]
    ELSE LET nxt == AtIndex(Neighbors(G, nd), ds[i])
             voted == [c \in 1..Len(parts[2]) |->
                          votes[c] + ExpectedVote(nxt, parts[2][c])]
             gates == {g \in 1..Len(influencers) : nxt \in Row(influencers, g)}
         IN  IF gates # {}
             THEN [side |-> CHOOSE g \in gates : \A g2 \in gates : g2 <= g,
                   votes |-> voted, last |-> i]
             ELSE WalkOn(nxt, voted, ds, i + 1)

\* the walks a sequence of draws holds, each replayed on its own draws; the
\* walk at position i of ds is the one of community kk
RECURSIVE WalksOf(_, _, _)
WalksOf(ds, i, kk) ==
    IF i > Len(ds) THEN <<>>
    ELSE LET w == WalkOn(AtIndex(parts[2][kk], ds[i]),
                         [c \in 1..Len(parts[2]) |-> 0], ds, i + 1)
         IN  IF w.side = NoSide THEN <<>>
             ELSE <<[k |-> kk, side |-> w.side, votes |-> w.votes]>>
                  \o WalksOf(ds, w.last + 1, (kk % parts[1]) + 1)

\* a pair of matrices <<crossing, sentiment>> with one walk added
AddWalk(MS, w) ==
    <<[MS[1] EXCEPT ![w.k][w.side] =
          RAdd(MS[1][w.k][w.side], Rat(1, arg.iterations))],
      [MS[2] EXCEPT ![w.k] =
          [c \in 1..Len(w.votes) |->
              RAdd(MS[2][w.k][c], WalkShare(w.votes[c]))]]>>

\* the walks ws[ord[from]], ..., ws[ord[to]] added to a pair of zero matrices
RECURSIVE Partial(_, _, _, _)
Partial(ws, ord, from, to) ==
    IF from > to THEN <<ZeroMatrix(parts[1]), ZeroMatrix(parts[1])>>
    ELSE AddWalk(Partial(ws, ord, from, to - 1), ws[ord[to]])

MatrixSum(A, B) ==
    [r \in 1..Len(A) |-> [c \in 1..Len(A[r]) |-> RAdd(A[r][c], B[r][c])]]

PairSum(P, Q) == <<MatrixSum(P[1], Q[1]), MatrixSum(P[2], Q[2])>>

RECURSIVE InfluencersLoop(_, _, _, _, _, _)
InfluencersLoop(infl, comms, kk, i, influencers_a, influencers_b) ==
    IF ~(Len(influencers_a) < kk \/ Len(influencers_b) < kk)
    THEN Returned(<<influencers_a, influencers_b>>)
    ELSE IF i > Len(infl)
    THEN Raised("IndexError", <<>>)
    ELSE IF infl[i] \in comms[1]
    THEN InfluencersLoop(infl, comms, kk, i + 1,
             IF Len(influencers_a) < kk THEN Append(influencers_a, infl[i])
             ELSE influencers_a,
             influencers_b)
    ELSE IF infl[i] \in comms[2]
    THEN InfluencersLoop(infl, comms, kk, i + 1, influencers_a,
             IF Len(influencers_b) < kk THEN Append(influencers_b, infl[i])
             ELSE influencers_b)
    ELSE InfluencersLoop(infl, comms, kk, i + 1, influencers_a, influencers_b)

\* lines 180-195 and the loop: k is taken of the whole graph and the scores
\* are those of the whole graph
get_influencers(Gr, P, metric, kk) ==
    {IF score.exc # "none"
     THEN Raised(score.exc, <<>>)
     ELSE InfluencersLoop(NodesMetric(score.val), P[2], NextK(kk, Gr), 1,
                          <<>>, <<>>) :
        score \in Centrality(Gr, metric)}

InitPair ==
    /\ entry = "get_influencers"
    /\ pc = "get_influencers"
    /\ exc = "none"
    /\ IdleWeb
    /\ \E kk \in KPcts : \E mt \in Metrics :
          arg = [DefaultArgs EXCEPT !.connected = FALSE, !.k = kk, !.metric = mt]
    /\ replies = {}
    /\ date = 1
    /\ campaign_data = <<>>
    /\ json_file = <<>>
    /\ called = {}
    /\ \E rows \in EdgeLists(InflUsers, InflEdges) \ {{}} : \E d \in BOOLEAN :
       \E out \in gen_graph(rows, FALSE, TRUE, d) : G = out.val
    /\ parts \in {res[1] : res \in {r \in gen_partitions(G) : r[1][1] = 2}}
    /\ influencers = <<>>
    /\ IdleScore

\* get_influencers called with the run's arguments
GetInfluencersPair ==
    /\ pc = "get_influencers"
    /\ called' = called \cup {"get_influencers"}
    /\ \E out \in get_influencers(G, parts, arg.metric, arg.k) :
          IF out.exc # "none"
          THEN /\ pc' = "raised"
               /\ exc' = out.exc
               /\ influencers' = influencers
          ELSE /\ pc' = "returned"
               /\ exc' = exc
               /\ influencers' = out.val
    /\ UNCHANGED <<runVars, campaignVars, G, parts, scoreVars>>

NextPair == GetInfluencersPair

SpecPair == InitPair /\ [][NextPair]_vars

(***************************************************************************)
(* C26: on a partition with exactly two communities get_influencer_matrix  *)
(* can take the place of get_influencers: with the same graph, partition,  *)
(* metric and k the two return the same two gatekeeper lists, and each     *)
(* returns normally whenever the other does.                               *)
(***************************************************************************)
C26_MatrixReplacesPair ==
    (entry = "get_influencers" /\ "get_influencers" \in called) =>
        LET matrix == get_influencer_matrix(G, parts, arg.metric, arg.k)
        IN  /\ (pc = "returned") =>
                  \E out \in matrix : out.exc = "none" /\ out.val = influencers
            /\ (pc = "raised") =>
                  \E out \in matrix : out.exc # "none"

(***************************************************************************)
(* C27: for a partition into non-empty disjoint communities and k >= 1,    *)
(* every gatekeeper list get_influencer_matrix returns is a non-empty      *)
(* subset of its own community; the lists are pairwise disjoint, and the   *)
(* side lines 236-241 give for a node is the index of the one community    *)
(* that contains it.                                                       *)
(***************************************************************************)
InfluencerMatrixReturned ==
    /\ entry = "get_influencer_matrix"
    /\ pc = "returned"

C27_GatekeepersOfOwnCommunity ==
    (InfluencerMatrixReturned /\ arg.k >= 1) =>
        /\ Len(influencers) = Len(parts[2])
        /\ \A i \in 1..Len(influencers) :
              /\ Row(influencers, i) # {}
              /\ Row(influencers, i) \subseteq parts[2][i]
        /\ \A a \in 1..Len(influencers) : \A b \in 1..Len(influencers) :
              (a # b) => Row(influencers, a) \cap Row(influencers, b) = {}
        /\ \A nd \in Gatekeepers(influencers) :
              LET ended == SideOf(influencers, nd, NoSide)
              IN  /\ ended \in 1..Len(parts[2])
                  /\ \A c \in 1..Len(parts[2]) : (nd \in parts[2][c]) <=> (c = ended)

\* three communities or more, and a community larger than its gatekeeper list
C27_Witness ==
    /\ InfluencerMatrixReturned
    /\ arg.k >= 1
    /\ Len(parts[2]) >= 3
    /\ \E i \in 1..Len(influencers) : Row(influencers, i) # parts[2][i]

(***************************************************************************)
(* C28: in the default pipeline of analyse_polarity (undirected graph,     *)
(* remove_isolated and connected both true, partition, then                *)
(* get_influencer_matrix) every node of the graph the walks run on has a   *)
(* neighbour, so no walk ever stands on a node with an empty neighbour     *)
(* list and random.choice never raises IndexError inside a walk.           *)
(***************************************************************************)
DefaultPipeline ==
    /\ entry = "analyse_polarity"
    /\ arg.connected
    /\ arg.remove_isolated
    /\ ~arg.directed

WalkRunning == pc \in {"sample", "walk", "accumulate"}

C28_DefaultPipelineHasNoDeadEnd ==
    (DefaultPipeline /\ "polarity_score_multi" \in called) =>
        /\ WalkRunning => \A v \in G.nodes : Neighbors(G, v) # {}
        /\ (pc \in {"walk", "accumulate"}) =>
              /\ node \in G.nodes
              /\ Neighbors(G, node) # {}
        /\ ~(pc = "raised" /\ exc = "IndexError")

\* a walk of the campaign has left its start node for one of its neighbours
C28_Witness ==
    /\ DefaultPipeline
    /\ "polarity_score_multi" \in called
    /\ pc \in {"walk", "accumulate"}
    /\ node # NoNode
    /\ j >= 2
    /\ Cardinality(G.nodes) >= 2

(***************************************************************************)
(* _random_walk_multi as a loop that may run for ever.  One Move is one    *)
(* pass of the while loop of lines 219-241 with the neighbour that         *)
(* random.choice drew.  j is only counted, never tested: it is carried     *)
(* round 1..MaxSteps + 1, so that every pass changes the state (a pass     *)
(* along a self-loop too) and a walk that goes round a cycle comes back to *)
(* a state it was in.  The reply table is empty, so every vote is 0 and    *)
(* sentiment_parts stays as it started.                                    *)
(***************************************************************************)
InitLive ==
    /\ entry = "_random_walk_multi"
    /\ pc = "walk"
    /\ exc = "none"
    /\ IdleWeb
    /\ \E d \in BOOLEAN :
          /\ arg = [DefaultArgs EXCEPT !.connected = FALSE, !.directed = d]
          /\ \E rows \in EdgeLists(WalkUsers, WalkEdges) \ {{}} :
             \E out \in gen_graph(rows, FALSE, TRUE, d) : G = out.val
    /\ replies = {}
    /\ date = 1
    /\ campaign_data = <<>>
    /\ json_file = <<>>
    /\ called = {"_random_walk_multi"}
    /\ parts \in {res[1] : res \in {r \in gen_partitions(G) : SimulatorInvoked(r[1][1])}}
    /\ influencers \in {out.val : out \in get_influencer_matrix(G, parts, arg.metric, arg.k)}
    /\ x = 0
    /\ k \in 1..parts[1]
    /\ node \in parts[2][k]
    /\ side = NoSide
    /\ sentiment_parts = [i \in 1..Len(parts[2]) |-> 0]
    /\ j = 1
    /\ rwc_matrix = ZeroMatrix(parts[1])
    /\ rwc_matrix_sentiment = ZeroMatrix(parts[1])
    /\ polarity_score = <<>>
    /\ draws = <<>>

\* lines 219-241: the walk stands on nd and random.choice draws nxt
Move(nd, nxt) ==
    /\ pc = "walk"
    /\ node = nd
    /\ nxt \in Neighbors(G, nd)
    /\ node' = nxt
    /\ draws' = Drawn(IndexIn(Neighbors(G, nd), nxt))
    /\ sentiment_parts' = VotesAdded(replies, parts[2], sentiment_parts, nxt)
    /\ j' = IF j <= MaxSteps THEN j + 1 ELSE 1
    /\ side' = SideOf(influencers, nxt, side)
    /\ pc' = IF SideOf(influencers, nxt, side) = NoSide THEN "walk" ELSE "returned"
    /\ UNCHANGED <<runVars, exc, campaignVars, unitVars, x, k, rwc_matrix,
                   rwc_matrix_sentiment, polarity_score>>

\* line 221: random.choice of an empty list raises IndexError
DeadEnd ==
    /\ pc = "walk"
    /\ Neighbors(G, node) = {}
    /\ pc' = "raised"
    /\ exc' = "IndexError"
    /\ UNCHANGED <<runVars, campaignVars, unitVars, scoreVars, draws>>

NextLive ==
    \/ \E nd \in 1..WalkUsers : \E nxt \in 1..WalkUsers : Move(nd, nxt)
    \/ DeadEnd

\* a choice that keeps the loop running but is free to avoid a neighbour
\* for ever
FairChoice_ProgressOnly == WF_vars(NextLive)

\* line 221, random.choice taken to be fair: a neighbour nxt of a node nd
\* the walk stands on again and again is drawn at some time
FairChoice ==
    \A nd \in 1..WalkUsers : \A nxt \in 1..WalkUsers : SF_vars(Move(nd, nxt))

SpecLive == InitLive /\ [][NextLive]_vars /\ FairChoice

(***************************************************************************)
(* C29: on a connected undirected graph with at least one non-empty        *)
(* gatekeeper list every random walk terminates at some time, when the     *)
(* neighbour choice is fair; when the choice is only required to go on,    *)
(* some walks never terminate, the loop having no bound on its steps.      *)
(***************************************************************************)
ConnectedUndirected(Gr) ==
    /\ ~Gr.directed
    /\ Cardinality(ConnectedComponents(Gr)) = 1

LiveCase ==
    /\ ConnectedUndirected(G)
    /\ Gatekeepers(influencers) # {}

C29_FairWalkTerminates ==
    (pc = "walk" /\ LiveCase) ~> (pc = "returned")

\* a walk that ended only after it had gone past a node other than a
\* gatekeeper
C29_Witness ==
    /\ entry = "_random_walk_multi"
    /\ LiveCase
    /\ pc = "returned"
    /\ replies = {}
    /\ j > MaxSteps

(***************************************************************************)
(* Two POST /analyze requests served at the same time (app.py:486-490).    *)
(* Each request thread has its own DBConnector; check_existing_results and *)
(* insert_new_results_row are separate statements on separate             *)
(* connections, with no lock and no transaction around them, so the steps  *)
(* of one request interleave with those of the other.  The analyses of     *)
(* lines 493-506 write no row of campaign_analysis and are left out.       *)
(* The definition of the table is not part of the repository: to_sql       *)
(* creates it without a key, and a table created beforehand with a key on  *)
(* id rejects a second row with the same id; both outcomes are modelled.   *)
(* The requests carry no hashtags or the one hashtag "a", the queries that *)
(* requests served one after the other store once.                         *)
(***************************************************************************)
Workers == {1, 2}

RaceHashtags == {NoHashtags, <<"a">>}

InitRace ==
    /\ entry = "analyze_campaigns"
    /\ pc = "analyze_campaigns"
    /\ exc = "none"
    /\ arg = DefaultArgs
    /\ replies = {}
    /\ date = 1
    /\ campaign_data = <<>>
    /\ json_file = <<>>
    /\ IdleUnit
    /\ IdleScore
    /\ campaign_analysis = {}
    /\ network_analysis_results = {}
    /\ request = <<>>
    /\ campaign_analysis_stored_results = <<>>
    /\ analysis_results = <<>>
    /\ reply_sentiment = <<>>
    /\ workers = [w \in Workers |-> [pc |-> "analyze_campaigns",
                                     request |-> <<>>,
                                     stored |-> <<>>]]
    /\ appended = <<>>

\* the row insert_new_results_row builds at line 240
NewRow(results_id, campaign, hashtags) ==
    CHOOSE r \in insert_new_results_row({}, results_id, campaign, hashtags) : TRUE

\* app.py:488: check_existing_results of request thread w
RaceCheck(w) ==
    /\ workers[w].pc = "analyze_campaigns"
    /\ Len(appended) < MaxRows
    /\ \E campaigns \in Campaigns, hashtags \in RaceHashtags :
       \E out \in check_existing_results(campaign_analysis, campaigns, hashtags) :
          workers' = [workers EXCEPT ![w] =
                         [pc |-> "insert_new_results_row",
                          request |-> [campaigns |-> campaigns,
                                       hashtags |-> hashtags],
                          stored |-> out]]
    /\ UNCHANGED <<entry, pc, exc, arg, replies, reply_sentiment,
                   campaign_analysis, network_analysis_results, request,
                   campaign_analysis_stored_results, analysis_results,
                   appended, campaignVars, unitVars, scoreVars>>

\* app.py:489-490: insert_new_results_row of request thread w, when the
\* check found no row
RaceInsert(w) ==
    /\ workers[w].pc = "insert_new_results_row"
    /\ LET me  == workers[w]
           row == NewRow(me.stored[2], me.request.campaigns, me.request.hashtags)
       IN  IF me.stored[1]
           THEN /\ workers' = [workers EXCEPT ![w].pc = "analyze_campaigns"]
                /\ UNCHANGED <<campaign_analysis, appended>>
           ELSE \/ /\ campaign_analysis' =
                         insert_new_results_row(campaign_analysis, me.stored[2],
                                                me.request.campaigns,
                                                me.request.hashtags)
                   /\ appended' = Append(appended, row)
                   /\ workers' = [workers EXCEPT ![w].pc = "analyze_campaigns"]
                \/ /\ \E r \in campaign_analysis : r.id = me.stored[2]
                   /\ workers' = [workers EXCEPT ![w].pc = "IntegrityError"]
                   /\ UNCHANGED <<campaign_analysis, appended>>
    /\ UNCHANGED <<entry, pc, exc, arg, replies, reply_sentiment,
                   network_analysis_results, request,
                   campaign_analysis_stored_results, analysis_results,
                   campaignVars, unitVars, scoreVars>>

NextRace == \E w \in Workers : RaceCheck(w) \/ RaceInsert(w)

SpecRace == InitRace /\ [][NextRace]_vars

(***************************************************************************)
(* C30: when two /analyze requests run at the same time, each interleaving *)
(* its check_existing_results and insert_new_results_row with the other's, *)
(* two requests for different (campaign, hashtags) queries never insert    *)
(* rows of campaign_analysis with the same id, and two requests for the    *)
(* same query never insert two rows for it.                                *)
(***************************************************************************)
QueryOf(row) == <<row.campaign, row.hashtags>>

C30_ConcurrentRequestsInsertOnce ==
    \A a \in 1..Len(appended) : \A b \in 1..Len(appended) :
        (a < b) =>
            /\ QueryOf(appended[a]) # QueryOf(appended[b])
            /\ appended[a].id # appended[b].id
====
